---- MODULE Spec2Model ----
(***************************************************************************)
(* A model of the cdav-library resource layer:                             *)
(*   - DavCollection (src/src/models/davCollection.js): exposed            *)
(*     properties, the list of updated ("dirty") properties, update(),     *)
(*     delete(), findAll(), find() and the resolution of a multi-status    *)
(*     result into child nodes;                                            *)
(*   - Request (src/unnamed/part_000): request(), its classification of    *)
(*     failures and the reduction of a 207 body;                           *)
(*   - addressBookPropSet (src/unnamed/part_001).                          *)
(*                                                                         *)
(* Strings that the code takes apart or puts together are sequences of     *)
(* tokens: a URL is a sequence such as <<"/", "c", "/">>, a status line    *)
(* the sequence of its space-separated tokens, a content type the          *)
(* sequence of its ";"-separated parts.                                    *)
(***************************************************************************)
EXTENDS Integers, Sequences, FiniteSets, TLC

VARIABLES
    \* ---- one DavCollection node --------------------------------------
    _url,                 \* this._url
    _props,               \* this._props: qualified name -> value
    _updatedProperties,   \* this._updatedProperties: sequence of qualified names
    _childrenNames,       \* this._childrenNames: sequence of paths
    _propSetFactory,      \* this._propSetFactory: sequence of encoders
    _collectionFactoryMapper, \* resource type -> constructor
    _objectFactoryMapper, \* content type -> constructor
    _propFindList,        \* this._propFindList: sequence of [namespace, name]
    nRegistrations,       \* factory registrations made so far
    exposed,              \* accessors defined by _exposeProperty: localName -> [key, mutable]
    \* ---- the node's calls on this._request ---------------------------
    pending,              \* calls suspended at their await, in order of issue
    nCalls,               \* operations started so far
    nRequests,            \* calls made on this._request so far
    lastRequest,          \* the latest call made on this._request
    settled,              \* the latest operation that returned or threw
    \* ---- one Request.request() call ----------------------------------
    document,             \* the 207 body the server is putting together
    sent,                 \* what request() handed to axios.request
    reply,                \* what the HTTP client made of it: a response or an error
    outcome,              \* how the promise returned by request() settled
    \* ---- one MultiStatusResult and the nodes resolved from it --------
    responseBody,         \* the result: its PropertyMaps are the objects nodes point to
    resolutions           \* the node sequences _handleMultiStatusResponse returned for it

factoryVars == <<_collectionFactoryMapper, _objectFactoryMapper, _propFindList,
                 nRegistrations>>
nodeVars == <<_url, _props, _updatedProperties, _childrenNames, _propSetFactory,
              factoryVars, exposed>>
callVars == <<pending, nCalls, nRequests, lastRequest, settled>>
requestVars == <<document, sent, reply, outcome>>
resolveVars == <<responseBody, resolutions>>
vars == <<nodeVars, callVars, requestVars, resolveVars>>

(***************************************************************************)
(* Bounds of the model.                                                    *)
(***************************************************************************)
MaxCalls == 2
MaxFactories == 2
MaxFinds == 1
MaxEntries == 2
MaxRegistrations == 1

(***************************************************************************)
(* Namespaces and qualified names.                                         *)
(***************************************************************************)
NS_DAV == "DAV:"
NS_IETF_CARDDAV == "urn:ietf:params:xml:ns:carddav"
NS_OWNCLOUD == "http://owncloud.org/ns"

DisplayName == "{DAV:}displayname"
AddressBookDescription == "{urn:ietf:params:xml:ns:carddav}addressbook-description"
OwnCloudEnabled == "{http://owncloud.org/ns}enabled"

\* `{${xmlNamespace}}${xmlName}` for the names the model uses.
QName(xmlNamespace, xmlName) ==
    CASE xmlNamespace = NS_DAV /\ xmlName = "displayname" -> DisplayName
      [] xmlNamespace = NS_DAV /\ xmlName = "owner" -> "{DAV:}owner"
      [] xmlNamespace = NS_DAV /\ xmlName = "resourcetype" -> "{DAV:}resourcetype"
      [] xmlNamespace = NS_DAV /\ xmlName = "sync-token" -> "{DAV:}sync-token"
      [] xmlNamespace = NS_DAV /\ xmlName = "current-user-privilege-set"
            -> "{DAV:}current-user-privilege-set"
      [] xmlNamespace = NS_IETF_CARDDAV /\ xmlName = "addressbook-description"
            -> AddressBookDescription
      [] xmlNamespace = NS_OWNCLOUD /\ xmlName = "enabled" -> OwnCloudEnabled

\* Values a caller writes to a property; "" is the falsy one.
Values == {"", "a"}
Truthy(value) == value # ""

Undefined == "undefined"
None == [op |-> "none", state |-> "none", error |-> "none", value |-> <<>>,
         response |-> <<>>]

(***************************************************************************)
(* DavCollection: construction, exposed properties, property encoders.     *)
(***************************************************************************)

\* props[key] of a JS object: undefined when the key is not there.
Get(props, key) == IF key \in DOMAIN props THEN props[key] ELSE Undefined

\* props[key] = value
Put(props, key, value) ==
    [k \in DOMAIN props \cup {key} |-> IF k = key THEN value ELSE props[k]]

\* A faulty constructor that keeps the URL as it is given.
CollectionUrlAsGiven(url) == url

\* The constructor's "always make sure to end with a /".
CollectionUrl(url) ==
    IF Len(url) > 0 /\ url[Len(url)] = "/" THEN url ELSE url \o <<"/">>

\* The accessors the constructor defines with _exposeProperty.
ConstructorExposed ==
    [localName \in {"displayname", "owner", "resourcetype", "syncToken",
                    "currentUserPrivilegeSet"} |->
        CASE localName = "displayname" ->
                [key |-> QName(NS_DAV, "displayname"), mutable |-> TRUE]
          [] localName = "owner" ->
                [key |-> QName(NS_DAV, "owner"), mutable |-> FALSE]
          [] localName = "resourcetype" ->
                [key |-> QName(NS_DAV, "resourcetype"), mutable |-> FALSE]
          [] localName = "syncToken" ->
                [key |-> QName(NS_DAV, "sync-token"), mutable |-> FALSE]
          [] localName = "currentUserPrivilegeSet" ->
                [key |-> QName(NS_DAV, "current-user-privilege-set"), mutable |-> FALSE]]

\* The _exposeProperty calls a subclass constructor makes on top of these.
SubclassExposures ==
    { [localName |-> "description", xmlNamespace |-> NS_IETF_CARDDAV,
       xmlName |-> "addressbook-description", mutable |-> TRUE],
      [localName |-> "enabled", xmlNamespace |-> NS_OWNCLOUD,
       xmlName |-> "enabled", mutable |-> TRUE] }

\* The encoders a node may register.
PropSetFactories == {"davCollectionPropSet", "addressBookPropSet"}

\* The entries of the object update() hands to every encoder, in the order
\* Object.entries walks them: the order the keys became dirty.
\* davCollectionPropSet: the encoder of {DAV:}displayname.
RECURSIVE davCollectionPropSet(_)
davCollectionPropSet(props) ==
    IF props = <<>> THEN <<>>
    ELSE LET key == Head(props).key
             value == Head(props).value
             xmlified ==
                 CASE key = DisplayName ->
                        << [name |-> <<NS_DAV, "displayname">>, value |-> value] >>
                   [] OTHER -> <<>>
         IN  xmlified \o davCollectionPropSet(Tail(props))

\* A faulty encoder whose default case passes {DAV:}displayname on.
RECURSIVE addressBookPropSetPassing(_)
addressBookPropSetPassing(props) ==
    IF props = <<>> THEN <<>>
    ELSE LET key == Head(props).key
             value == Head(props).value
             xmlified ==
                 CASE key = AddressBookDescription ->
                        << [name |-> <<NS_IETF_CARDDAV, "addressbook-description">>,
                            value |-> value] >>
                   [] key = OwnCloudEnabled ->
                        << [name |-> <<NS_OWNCLOUD, "enabled">>,
                            value |-> IF Truthy(value) THEN "1" ELSE "0"] >>
                   [] OTHER -> << [name |-> <<NS_DAV, "displayname">>, value |-> value] >>
         IN  xmlified \o addressBookPropSetPassing(Tail(props))

RECURSIVE addressBookPropSet(_)
addressBookPropSet(props) ==
    IF props = <<>> THEN <<>>
    ELSE LET key == Head(props).key
             value == Head(props).value
             xmlified ==
                 CASE key = AddressBookDescription ->
                        << [name |-> <<NS_IETF_CARDDAV, "addressbook-description">>,
                            value |-> value] >>
                   [] key = OwnCloudEnabled ->
                        << [name |-> <<NS_OWNCLOUD, "enabled">>,
                            value |-> IF Truthy(value) THEN "1" ELSE "0"] >>
                   [] OTHER -> <<>>
         IN  xmlified \o addressBookPropSet(Tail(props))

\* p(properties) for a registered encoder p.
CallPropSet(p, properties) ==
    CASE p = "davCollectionPropSet" -> davCollectionPropSet(properties)
      [] p = "addressBookPropSet" -> addressBookPropSet(properties)

\* this._propSetFactory.reduce((arr, p) => [...arr, ...p(properties)], [])
RECURSIVE PropSetOf(_, _)
PropSetOf(factories, properties) ==
    IF factories = <<>> THEN <<>>
    ELSE CallPropSet(Head(factories), properties) \o PropSetOf(Tail(factories), properties)

\* A faulty gathering: every property the node holds, changed or not.
UpdatedPropertyValuesAll(updatedProperties, props) ==
    LET keys == <<DisplayName, AddressBookDescription, OwnCloudEnabled>>
        held == SelectSeq(keys, LAMBDA k : k \in DOMAIN props)
    IN  [i \in 1..Len(held) |-> [key |-> held[i], value |-> props[held[i]]]]

\* update(): the object built from the dirty keys and their current values.
UpdatedPropertyValues(updatedProperties, props) ==
    [i \in 1..Len(updatedProperties) |->
        [key |-> updatedProperties[i], value |-> Get(props, updatedProperties[i])]]

\* update(): the propertyupdate/set/prop skeleton with the encoders' elements.
PropertyUpdateBody(propSet) ==
    [name |-> <<NS_DAV, "propertyupdate">>,
     children |-> << [name |-> <<NS_DAV, "set">>,
                      children |-> << [name |-> <<NS_DAV, "prop">>,
                                       children |-> propSet] >>] >>]

(***************************************************************************)
(* URLs are sequences of tokens: the origin, "/" and the path segments.    *)
(***************************************************************************)
Origin == "https://host"
baseUrl == <<Origin, "/">>

ResourceType == "{DAV:}resourcetype"
GetContentType == "{DAV:}getcontenttype"
DavCollectionType == "{DAV:}collection"
CalendarType == "{urn:ietf:params:xml:ns:caldav}calendar"
AddressBookType == "{urn:ietf:params:xml:ns:carddav}addressbook"

\* The part of a path up to and including its last "/".
RECURSIVE Directory(_)
Directory(path) ==
    IF path = <<>> \/ path[Len(path)] = "/" THEN path
    ELSE Directory(SubSeq(path, 1, Len(path) - 1))

\* pathname(url): new URL(url, this.baseUrl).pathname, for a URL that is an
\* absolute URI of the server, an absolute path, or relative to the base URL.
pathname(url) ==
    IF url # <<>> /\ url[1] = Origin
    THEN (IF Len(url) = 1 THEN <<"/">> ELSE Tail(url))
    ELSE IF url # <<>> /\ url[1] = "/"
    THEN url
    ELSE Directory(Tail(baseUrl)) \o url

(***************************************************************************)
(* Request: request(), propFind() and the reduction of a 207 body.         *)
(*                                                                         *)
(* A 207 body is the sequence of its d:response elements, each with its    *)
(* href and the sequence of its d:propstat elements, each with its status  *)
(* line and the sequence of the elements under d:prop.  A JS value that    *)
(* may be of several types is a record with its kind.                      *)
(***************************************************************************)
NaN == -1

\* parseInt(token, 10) for the tokens of the model; NaN for undefined and for
\* a token that does not start with a digit.
parseInt(token) ==
    CASE token = "0" -> 0
      [] token = "1" -> 1
      [] token = "200" -> 200
      [] token = "404" -> 404
      [] OTHER -> NaN

\* A faulty wasRequestSuccessful: every status from 200 on.
wasRequestSuccessfulFrom200(status) == status >= 200

\* wasRequestSuccessful(status); every comparison with NaN is false.
wasRequestSuccessful(status) == status # NaN /\ status >= 200 /\ status < 300

\* getStatusCodeFromString(status): parseInt(status.split(' ')[1], 10)
getStatusCodeFromString(status) ==
    parseInt(IF Len(status) >= 2 THEN status[2] ELSE Undefined)

\* getDefaultHeaders()
getDefaultHeaders ==
    ("Depth" :> "0") @@ ("Content-Type" :> "application/xml; charset=utf-8")

\* A faulty merge in which the defaults are assigned last.
AssignHeadersDefaultsLast(headers) == getDefaultHeaders @@ headers

\* Object.assign({}, getDefaultHeaders(), headers)
AssignHeaders(headers) == headers @@ getDefaultHeaders

\* Whether new URL(url, this.baseUrl) parses url; it throws a TypeError for
\* one it cannot parse, such as one with an unclosed "[" for its host.
Parses(url) == \A k \in DOMAIN url : url[k] # "http://["

\* absoluteUrl(url): new URL(url, this.baseUrl).href
absoluteUrl(url) == <<Origin>> \o pathname(url)

\* The qualified names the Parser has a decoder for.
Decodable == {DisplayName, ResourceType, GetContentType}
canParse(name) == name \in Decodable

\* parser.parse(document, propNode, resolver): the decoded value of an element.
parse(propNode) == propNode.value

\* result[href] = parsedProperties on an object whose keys keep the order in
\* which they were first set.
SetEntry(result, href, parsedProperties) ==
    IF \E k \in DOMAIN result : result[k].path = href
    THEN [k \in DOMAIN result |->
             IF result[k].path = href
             THEN [path |-> href, defined |-> TRUE, props |-> parsedProperties]
             ELSE result[k]]
    ELSE Append(result, [path |-> href, defined |-> TRUE, props |-> parsedProperties])

\* A faulty inner loop that keeps every element, decodable or not.
RECURSIVE ParsePropsAll(_, _)
ParsePropsAll(props, parsedProperties) ==
    IF props = <<>> THEN parsedProperties
    ELSE ParsePropsAll(Tail(props),
                       Put(parsedProperties, Head(props).name, parse(Head(props))))

\* The inner loop over d:prop/*.
RECURSIVE ParseProps(_, _)
ParseProps(props, parsedProperties) ==
    IF props = <<>> THEN parsedProperties
    ELSE LET propNode == Head(props) IN
         ParseProps(Tail(props),
                    IF canParse(propNode.name)
                    THEN Put(parsedProperties, propNode.name, parse(propNode))
                    ELSE parsedProperties)

\* The loop over the d:propstat elements of one d:response.
RECURSIVE ParsePropStats(_, _)
ParsePropStats(propStats, parsedProperties) ==
    IF propStats = <<>> THEN parsedProperties
    ELSE LET propStatNode == Head(propStats) IN
         ParsePropStats(Tail(propStats),
                        IF ~wasRequestSuccessful(getStatusCodeFromString(propStatNode.status))
                        THEN parsedProperties
                        ELSE ParseProps(propStatNode.props, parsedProperties))

\* A faulty outer loop that drops a d:response of which nothing was kept.
RECURSIVE ParseResponsesKept(_, _)
ParseResponsesKept(responses, result) ==
    IF responses = <<>> THEN result
    ELSE LET responseNode == Head(responses)
             parsedProperties == ParsePropStats(responseNode.propstats, <<>>) IN
         ParseResponsesKept(Tail(responses),
                            IF parsedProperties = <<>> THEN result
                            ELSE SetEntry(result, responseNode.href, parsedProperties))

\* The loop over the d:response elements.
RECURSIVE ParseResponses(_, _)
ParseResponses(responses, result) ==
    IF responses = <<>> THEN result
    ELSE LET responseNode == Head(responses) IN
         ParseResponses(Tail(responses),
                        SetEntry(result, responseNode.href,
                                 ParsePropStats(responseNode.propstats, <<>>)))

\* _parseMultiStatusResponse(body)
_parseMultiStatusResponse(body) == ParseResponses(body, <<>>)

\* The values a response body or an error's data can be.
RawBody(data) == [kind |-> "raw", value |-> data]
MultiStatusBody(result) == [kind |-> "multistatus", value |-> result]
PropertyMapBody(props) == [kind |-> "propertymap", value |-> props]
UndefinedBody == [kind |-> "undefined", value |-> <<>>]
NullBody == [kind |-> "null", value |-> <<>>]

\* A number that may be undefined.
Number(n) == [defined |-> TRUE, value |-> n]
UndefinedNumber == [defined |-> FALSE, value |-> 0]

NoConfig == [method |-> "none", url |-> <<>>, headers |-> <<>>, data |-> <<>>]
NoReply == [kind |-> "none", answered |-> FALSE, status |-> 0, data |-> <<>>, isCancel |-> FALSE,
            request |-> FALSE, errorStatus |-> UndefinedNumber, errorData |-> UndefinedBody]
NoOutcome == [state |-> "none", error |-> "none", status |-> UndefinedNumber,
              body |-> UndefinedBody]

\* A faulty then() that unwraps to the last entry of the result.
ThenLastEntry(method, assignHeaders, response) ==
    IF response.status = 207
    THEN LET result == _parseMultiStatusResponse(response.data) IN
         IF parseInt(assignHeaders["Depth"]) = 0 /\ method = "PROPFIND"
         THEN [state |-> "resolved", error |-> "none", status |-> Number(response.status),
               body |-> IF result = <<>> THEN UndefinedBody
                        ELSE PropertyMapBody(result[Len(result)].props)]
         ELSE [state |-> "resolved", error |-> "none", status |-> Number(response.status),
               body |-> MultiStatusBody(result)]
    ELSE [state |-> "resolved", error |-> "none", status |-> Number(response.status),
          body |-> RawBody(response.data)]

\* A faulty then() that reduces the 207 of a PROPFIND alone.
ThenPropFindOnly(method, assignHeaders, response) ==
    IF response.status = 207 /\ method = "PROPFIND"
    THEN LET result == _parseMultiStatusResponse(response.data) IN
         IF parseInt(assignHeaders["Depth"]) = 0
         THEN [state |-> "resolved", error |-> "none", status |-> Number(response.status),
               body |-> IF result = <<>> THEN UndefinedBody
                        ELSE PropertyMapBody(result[1].props)]
         ELSE [state |-> "resolved", error |-> "none", status |-> Number(response.status),
               body |-> MultiStatusBody(result)]
    ELSE [state |-> "resolved", error |-> "none", status |-> Number(response.status),
          body |-> RawBody(response.data)]

\* The then() callback of request(): a 207 body is reduced, and unwrapped to
\* its first entry for a PROPFIND whose Depth header parses to 0.
Then(method, assignHeaders, response) ==
    IF response.status = 207
    THEN LET result == _parseMultiStatusResponse(response.data) IN
         IF parseInt(assignHeaders["Depth"]) = 0 /\ method = "PROPFIND"
         THEN [state |-> "resolved", error |-> "none", status |-> Number(response.status),
               body |-> IF result = <<>> THEN UndefinedBody
                        ELSE PropertyMapBody(result[1].props)]
         ELSE [state |-> "resolved", error |-> "none", status |-> Number(response.status),
               body |-> MultiStatusBody(result)]
    ELSE [state |-> "resolved", error |-> "none", status |-> Number(response.status),
          body |-> RawBody(response.data)]

Rejected(error, body, status) ==
    [state |-> "rejected", error |-> error, status |-> status, body |-> body]

\* The catch() callback of request().
Catch(error) ==
    IF error.isCancel
    THEN Rejected("NetworkRequestAbortedError", NullBody, Number(-1))
    ELSE IF error.request
    THEN Rejected("NetworkRequestError", NullBody, Number(-1))
    ELSE IF /\ error.errorStatus.defined
            /\ error.errorStatus.value >= 400
            /\ error.errorStatus.value < 500
    THEN Rejected("NetworkRequestClientError", error.errorData, error.errorStatus)
    ELSE IF /\ error.errorStatus.defined
            /\ error.errorStatus.value >= 500
            /\ error.errorStatus.value < 600
    THEN Rejected("NetworkRequestServerError", error.errorData, error.errorStatus)
    ELSE Rejected("NetworkRequestHttpError", error.errorData, error.errorStatus)

(***************************************************************************)
(* The node's operations.  An async method runs to its await in one step   *)
(* (the call on this._request is made and the method is suspended) and     *)
(* resumes in a second step, when the promise of this._request settles.    *)
(***************************************************************************)

\* What a promise of this._request can settle with, as the node sees it.
Errors == {"NetworkRequestAbortedError", "NetworkRequestError",
           "NetworkRequestClientError", "NetworkRequestServerError",
           "NetworkRequestHttpError"}

\* The failures the model lets an awaited call end with.
Failures == {"NetworkRequestError", "NetworkRequestServerError"}

NoRequest == [method |-> "none", url |-> <<>>, headers |-> <<>>, depth |-> "none",
              body |-> <<>>]
NoHeaders == <<>>

\* How an operation ended: what it returned (a sequence of nodes; find()'s
\* node or undefined is a sequence of one or none) or the error it threw, and
\* the body of the response it was resumed with.
Returned(op, value, response) ==
    [op |-> op, state |-> "resolved", error |-> "none", value |-> value,
     response |-> response]
Threw(op, error, response) ==
    [op |-> op, state |-> "rejected", error |-> error, value |-> <<>>,
     response |-> response]

\* DavObject.getPropFindList()
DavObjectPropFindList ==
    << <<NS_DAV, "getcontenttype">>, <<NS_DAV, "getetag">>, <<NS_DAV, "resourcetype">> >>

\* DavCollection.getPropFindList()
DavCollectionPropFindList ==
    << <<NS_DAV, "displayname">>, <<NS_DAV, "owner">>, <<NS_DAV, "resourcetype">>,
       <<NS_DAV, "sync-token">>, <<NS_DAV, "current-user-privilege-set">> >>

\* The node a constructor call leaves behind.
Constructed(url, props) ==
    /\ _url = CollectionUrl(url)
    /\ _props = props
    /\ _collectionFactoryMapper = <<>>
    /\ _objectFactoryMapper = <<>>
    /\ _propFindList = DavObjectPropFindList \o DavCollectionPropFindList
    /\ nRegistrations = 0
    /\ _updatedProperties = <<>>
    /\ _childrenNames = <<>>
    /\ _propSetFactory = <<"davCollectionPropSet">>
    /\ exposed = ConstructorExposed

Idle ==
    /\ pending = <<>>
    /\ nCalls = 0
    /\ nRequests = 0
    /\ lastRequest = NoRequest
    /\ settled = None

NoTransport ==
    /\ document = <<>>
    /\ sent = NoConfig
    /\ reply = NoReply
    /\ outcome = NoOutcome

NoResponse ==
    /\ responseBody = <<>>
    /\ resolutions = <<>>

\* _registerPropSetFactory(factory)
_registerPropSetFactory(factory) ==
    /\ Len(_propSetFactory) < MaxFactories
    /\ _propSetFactory' = Append(_propSetFactory, factory)
    /\ UNCHANGED <<_url, _props, _updatedProperties, _childrenNames, factoryVars, exposed>>
    /\ UNCHANGED <<callVars, requestVars, resolveVars>>

\* _exposeProperty(localName, xmlNamespace, xmlName, mutable); defining an
\* accessor a second time throws, so each local name is exposed once.
_exposeProperty(localName, xmlNamespace, xmlName, mutable) ==
    /\ localName \notin DOMAIN exposed
    /\ exposed' = Put(exposed, localName,
                      [key |-> QName(xmlNamespace, xmlName), mutable |-> mutable])
    /\ UNCHANGED <<_url, _props, _updatedProperties, _childrenNames, _propSetFactory,
                   factoryVars>>
    /\ UNCHANGED <<callVars, requestVars, resolveVars>>

\* A faulty set accessor that pushes the name without looking for it.
SetPropertyAlwaysPush(localName, val) ==
    /\ localName \in DOMAIN exposed
    /\ exposed[localName].mutable
    /\ _props' = Put(_props, exposed[localName].key, val)
    /\ _updatedProperties' = Append(_updatedProperties, exposed[localName].key)
    /\ Len(_updatedProperties) < 4
    /\ UNCHANGED <<_url, _childrenNames, _propSetFactory, factoryVars, exposed>>
    /\ UNCHANGED <<callVars, requestVars, resolveVars>>

\* The set accessor of a mutable exposed property: node[localName] = val.
SetProperty(localName, val) ==
    /\ localName \in DOMAIN exposed
    /\ exposed[localName].mutable
    /\ LET key == exposed[localName].key IN
        /\ _props' = Put(_props, key, val)
        /\ _updatedProperties' =
              IF \A i \in DOMAIN _updatedProperties : _updatedProperties[i] # key
              THEN Append(_updatedProperties, key)
              ELSE _updatedProperties
    /\ UNCHANGED <<_url, _childrenNames, _propSetFactory, factoryVars, exposed>>
    /\ UNCHANGED <<callVars, requestVars, resolveVars>>

\* A faulty update(): no early return, the PROPPATCH is always sent.
updateAlways ==
    /\ nCalls < MaxCalls
    /\ nCalls' = nCalls + 1
    /\ LET properties == UpdatedPropertyValues(_updatedProperties, _props)
           propSet == PropSetOf(_propSetFactory, properties)
           body == PropertyUpdateBody(propSet)
       IN  /\ lastRequest' = [method |-> "PROPPATCH", url |-> _url,
                              headers |-> NoHeaders, depth |-> "none", body |-> body]
           /\ nRequests' = nRequests + 1
           /\ pending' = Append(pending, [op |-> "update"])
           /\ UNCHANGED settled
    /\ UNCHANGED <<nodeVars, requestVars, resolveVars>>

\* update(), up to its await: nothing when no property changed, else the
\* PROPPATCH with the encoded dirty properties.
update ==
    /\ nCalls < MaxCalls
    /\ nCalls' = nCalls + 1
    /\ IF Len(_updatedProperties) = 0
       THEN /\ settled' = Returned("update", <<>>, <<>>)
            /\ UNCHANGED <<pending, nRequests, lastRequest>>
       ELSE LET properties == UpdatedPropertyValues(_updatedProperties, _props)
                propSet == PropSetOf(_propSetFactory, properties)
                body == PropertyUpdateBody(propSet)
            IN  /\ lastRequest' = [method |-> "PROPPATCH", url |-> _url,
                                   headers |-> NoHeaders, depth |-> "none", body |-> body]
                /\ nRequests' = nRequests + 1
                /\ pending' = Append(pending, [op |-> "update"])
                /\ UNCHANGED settled
    /\ UNCHANGED <<nodeVars, requestVars, resolveVars>>

\* delete(headers), up to its await.
delete ==
    /\ nCalls < MaxCalls
    /\ nCalls' = nCalls + 1
    /\ lastRequest' = [method |-> "DELETE", url |-> _url, headers |-> NoHeaders,
                       depth |-> "none", body |-> <<>>]
    /\ nRequests' = nRequests + 1
    /\ pending' = Append(pending, [op |-> "delete"])
    /\ UNCHANGED <<settled, nodeVars, requestVars, resolveVars>>

Remove(seq, i) == [j \in 1..(Len(seq) - 1) |-> IF j < i THEN seq[j] ELSE seq[j + 1]]

\* update() after its await: the PROPPATCH succeeded and update() returns.
updateResolved(i) ==
    /\ i \in DOMAIN pending
    /\ pending[i].op = "update"
    /\ pending' = Remove(pending, i)
    /\ settled' = Returned("update", <<>>, <<>>)
    /\ UNCHANGED <<nCalls, nRequests, lastRequest, nodeVars, requestVars, resolveVars>>

\* delete() after its await.
deleteResolved(i) ==
    /\ i \in DOMAIN pending
    /\ pending[i].op = "delete"
    /\ pending' = Remove(pending, i)
    /\ settled' = Returned("delete", <<>>, <<>>)
    /\ UNCHANGED <<nCalls, nRequests, lastRequest, nodeVars, requestVars, resolveVars>>

\* A faulty method that catches the error and returns nothing.
awaitRejectedCaught(i, error) ==
    /\ i \in DOMAIN pending
    /\ pending' = Remove(pending, i)
    /\ settled' = Returned(pending[i].op, <<>>, <<>>)
    /\ UNCHANGED <<nCalls, nRequests, lastRequest, nodeVars, requestVars, resolveVars>>

\* An awaited call on this._request failed: the await throws, and the method,
\* which catches nothing, rejects with the same error.
awaitRejected(i, error) ==
    /\ i \in DOMAIN pending
    /\ pending' = Remove(pending, i)
    /\ settled' = Threw(pending[i].op, error, <<>>)
    /\ UNCHANGED <<nCalls, nRequests, lastRequest, nodeVars, requestVars, resolveVars>>

Init ==
    /\ \E props \in {<<>>, (DisplayName :> "a")} : Constructed(<<"/", "c">>, props)
    /\ Idle
    /\ NoTransport
    /\ NoResponse

Next ==
    \/ \E factory \in PropSetFactories : _registerPropSetFactory(factory)
    \/ \E e \in SubclassExposures :
          _exposeProperty(e.localName, e.xmlNamespace, e.xmlName, e.mutable)
    \/ \E localName \in DOMAIN exposed, val \in Values : SetProperty(localName, val)
    \/ update
    \/ delete
    \/ \E i \in DOMAIN pending : updateResolved(i)
    \/ \E i \in DOMAIN pending : deleteResolved(i)
    \/ \E i \in DOMAIN pending, error \in Failures : awaitRejected(i, error)

Spec == Init /\ [][Next]_vars

(***************************************************************************)
(* Request.pathname and the resolution of a multi-status result.           *)
(*                                                                         *)
(* A MultiStatusResult is a JS object keyed by path; Object.entries walks  *)
(* it in insertion order, so it is a sequence of [path, props] entries     *)
(* with distinct paths; the props of an entry are undefined (defined is    *)
(* FALSE) only in the entry find() builds from an answer without a body.   *)
(* The value of {DAV:}resourcetype is a sequence of resource types, that   *)
(* of {DAV:}getcontenttype the sequence of the ";"-separated parts of the  *)
(* string.                                                                 *)
(***************************************************************************)

\* mapper[key] of a factory mapper: undefined when nothing is registered.
Registered(mapper, key) == key \in DOMAIN mapper

\* The condition under which an entry "was identified as a file".
IdentifiedAsFile(props) ==
    /\ \/ ResourceType \notin DOMAIN props
       \/ Len(props[ResourceType]) = 0
    /\ GetContentType \in DOMAIN props
    /\ props[GetContentType] # <<"">>

\* A faulty split that keeps the last part of the content type.
SplitLast(getcontenttype) == getcontenttype[Len(getcontenttype)]

\* props['{DAV:}getcontenttype'].split(';')[0]: a content type is kept as
\* the sequence of its parts between the ';'.
SplitFirst(getcontenttype) == getcontenttype[1]

\* A faulty search that keeps the last type other than the DAV collection.
FindLastOther(resourcetype) ==
    LET others == SelectSeq(resourcetype, LAMBDA r : r # DavCollectionType) IN
    IF others = <<>> THEN [defined |-> FALSE, value |-> ""]
    ELSE [defined |-> TRUE, value |-> others[Len(others)]]

\* props['{DAV:}resourcetype'].find((r) => r !== '{DAV:}collection'): the
\* first collection type other than the DAV collection, or undefined.
FindFirstOther(resourcetype) ==
    LET others == SelectSeq(resourcetype, LAMBDA r : r # DavCollectionType) IN
    IF others = <<>> THEN [defined |-> FALSE, value |-> ""]
    ELSE [defined |-> TRUE, value |-> others[1]]

\* A node is kept with the URL it has once constructed: CalendarTrashBin
\* hands its arguments to DavCollection's constructor, which ends the URL
\* with a "/".
\* The body of the forEach callback for an entry that is not skipped: the
\* node pushed to children, or the TypeError of reading a property of
\* undefined.
ResolveEntry(path, defined, props, isPartial) ==
    LET url == pathname(path) IN
    IF ~defined THEN [threw |-> TRUE, node |-> <<>>]
    ELSE IF IdentifiedAsFile(props)
    THEN LET contentType == SplitFirst(props[GetContentType]) IN
         IF ~Registered(_objectFactoryMapper, contentType)
         THEN [threw |-> FALSE,
               node |-> [new |-> "DavObject", parent |-> _url, url |-> url,
                         props |-> props, isPartial |-> "none"]]
         ELSE [threw |-> FALSE,
               node |-> [new |-> _objectFactoryMapper[contentType], parent |-> _url,
                         url |-> url, props |-> props,
                         isPartial |-> IF isPartial THEN "true" ELSE "false"]]
    ELSE IF ResourceType \notin DOMAIN props
    THEN [threw |-> TRUE, node |-> <<>>]
    ELSE LET collectionType == FindFirstOther(props[ResourceType]) IN
         IF ~collectionType.defined
         THEN [threw |-> FALSE,
               node |-> [new |-> "DavCollection", parent |-> _url,
                         url |-> CollectionUrl(url), props |-> props, isPartial |-> "none"]]
         ELSE IF ~Registered(_collectionFactoryMapper, collectionType.value)
         THEN [threw |-> FALSE,
               node |-> [new |-> "DavCollection", parent |-> _url,
                         url |-> CollectionUrl(url), props |-> props, isPartial |-> "none"]]
         ELSE [threw |-> FALSE,
               node |-> [new |-> _collectionFactoryMapper[collectionType.value], parent |-> _url,
                         url |-> IF _collectionFactoryMapper[collectionType.value]
                                       = "CalendarTrashBin"
                                 THEN CollectionUrl(url) ELSE url,
                         props |-> props, isPartial |-> "none"]]

\* A faulty filter that skips only the path spelled exactly as this._url.
IsOwnUrlExact(path) == path = _url

\* "The DAV Server will always return a propStat block containing properties
\* of the current url": the entries the forEach callback returns from at once.
IsOwnUrl(path) == path = _url \/ path \o <<"/">> = _url

\* _handleMultiStatusResponse(response, isPartial): the entries are walked in
\* order; the first TypeError ends the call before _childrenNames is touched.
RECURSIVE HandleEntries(_, _, _, _)
HandleEntries(entries, isPartial, index, children) ==
    IF entries = <<>>
    THEN [threw |-> FALSE, index |-> index, children |-> children]
    ELSE LET path == Head(entries).path
             props == Head(entries).props
         IN  IF IsOwnUrl(path)
             THEN HandleEntries(Tail(entries), isPartial, index, children)
             ELSE LET r == ResolveEntry(path, Head(entries).defined, props, isPartial) IN
                  IF r.threw
                  THEN [threw |-> TRUE, index |-> <<>>, children |-> <<>>]
                  ELSE HandleEntries(Tail(entries), isPartial, Append(index, path),
                                     Append(children, r.node))

_handleMultiStatusResponse(body, isPartial) ==
    HandleEntries(body, isPartial, <<>>, <<>>)

(***************************************************************************)
(* findAll(), find() and the registration of factories.                    *)
(***************************************************************************)
NS_IETF_CALDAV == "urn:ietf:params:xml:ns:caldav"

\* Constructors a subclass registers: VObject and CalendarTrashBin have a
\* static getPropFindList (CalendarTrashBin inherits DavCollection's), a
\* plain function has none.
VObject ==
    [name |-> "VObject", hasGetPropFindList |-> TRUE,
     getPropFindList |-> << <<NS_IETF_CALDAV, "calendar-data">> >>]
CalendarTrashBin ==
    [name |-> "CalendarTrashBin", hasGetPropFindList |-> TRUE,
     getPropFindList |-> DavCollectionPropFindList]
PlainFactory ==
    [name |-> "Function", hasGetPropFindList |-> FALSE, getPropFindList |-> <<>>]

ObjectFactories == {VObject, PlainFactory}
CollectionFactories == {CalendarTrashBin}

\* _registerCollectionFactory(identifier, factory)
_registerCollectionFactory(identifier, factory) ==
    /\ nRegistrations < MaxRegistrations
    /\ nRegistrations' = nRegistrations + 1
    /\ _collectionFactoryMapper' = Put(_collectionFactoryMapper, identifier, factory.name)
    /\ _propFindList' = IF factory.hasGetPropFindList
                        THEN _propFindList \o factory.getPropFindList
                        ELSE _propFindList
    /\ UNCHANGED <<_url, _props, _updatedProperties, _childrenNames, _propSetFactory,
                   _objectFactoryMapper, exposed>>
    /\ UNCHANGED <<callVars, requestVars, resolveVars>>

\* A faulty registration that keeps the constructor a key already has.
_registerObjectFactoryOnce(identifier, factory) ==
    /\ nRegistrations < MaxRegistrations
    /\ nRegistrations' = nRegistrations + 1
    /\ _objectFactoryMapper' = IF identifier \in DOMAIN _objectFactoryMapper
                               THEN _objectFactoryMapper
                               ELSE Put(_objectFactoryMapper, identifier, factory.name)
    /\ _propFindList' = IF factory.hasGetPropFindList
                        THEN _propFindList \o factory.getPropFindList
                        ELSE _propFindList
    /\ UNCHANGED <<_url, _props, _updatedProperties, _childrenNames, _propSetFactory,
                   _collectionFactoryMapper, exposed>>
    /\ UNCHANGED <<callVars, requestVars, resolveVars>>

\* _registerObjectFactory(identifier, factory)
_registerObjectFactory(identifier, factory) ==
    /\ nRegistrations < MaxRegistrations
    /\ nRegistrations' = nRegistrations + 1
    /\ _objectFactoryMapper' = Put(_objectFactoryMapper, identifier, factory.name)
    /\ _propFindList' = IF factory.hasGetPropFindList
                        THEN _propFindList \o factory.getPropFindList
                        ELSE _propFindList
    /\ UNCHANGED <<_url, _props, _updatedProperties, _childrenNames, _propSetFactory,
                   _collectionFactoryMapper, exposed>>
    /\ UNCHANGED <<callVars, requestVars, resolveVars>>

\* findAll(), up to its await: propFind(this._url, this._propFindList, 1).
findAll ==
    /\ nCalls < MaxFinds
    /\ nCalls' = nCalls + 1
    /\ lastRequest' = [method |-> "PROPFIND", url |-> _url, headers |-> NoHeaders,
                       depth |-> "1", body |-> _propFindList]
    /\ nRequests' = nRequests + 1
    /\ pending' = Append(pending, [op |-> "findAll", path |-> _url])
    /\ UNCHANGED <<settled, nodeVars, requestVars, resolveVars>>

\* find(uri), up to its await: propFind(this._url + uri, this._propFindList, 0).
find(uri) ==
    /\ nCalls < MaxFinds
    /\ nCalls' = nCalls + 1
    /\ lastRequest' = [method |-> "PROPFIND", url |-> _url \o uri, headers |-> NoHeaders,
                       depth |-> "0", body |-> _propFindList]
    /\ nRequests' = nRequests + 1
    /\ pending' = Append(pending, [op |-> "find", path |-> _url \o uri])
    /\ UNCHANGED <<settled, nodeVars, requestVars, resolveVars>>

\* A faulty findAll() whose calls are served one after the other: only the
\* call made first goes on after its await.
findAllResolvedInTurn(i, body) ==
    /\ i = 1
    /\ i \in DOMAIN pending
    /\ pending[i].op = "findAll"
    /\ pending' = Remove(pending, i)
    /\ LET r == _handleMultiStatusResponse(body, FALSE) IN
          IF r.threw
          THEN /\ settled' = Threw("findAll", "TypeError", body)
               /\ UNCHANGED _childrenNames
          ELSE /\ settled' = Returned("findAll", r.children, body)
               /\ _childrenNames' = _childrenNames \o r.index
    /\ UNCHANGED <<_url, _props, _updatedProperties, _propSetFactory, factoryVars, exposed>>
    /\ UNCHANGED <<nCalls, nRequests, lastRequest, requestVars, resolveVars>>

\* findAll() after its await: the response is resolved into children.
findAllResolved(i, body) ==
    /\ i \in DOMAIN pending
    /\ pending[i].op = "findAll"
    /\ pending' = Remove(pending, i)
    /\ LET r == _handleMultiStatusResponse(body, FALSE) IN
          IF r.threw
          THEN /\ settled' = Threw("findAll", "TypeError", body)
               /\ UNCHANGED _childrenNames
          ELSE /\ settled' = Returned("findAll", r.children, body)
               /\ _childrenNames' = _childrenNames \o r.index
    /\ UNCHANGED <<_url, _props, _updatedProperties, _propSetFactory, factoryVars, exposed>>
    /\ UNCHANGED <<nCalls, nRequests, lastRequest, requestVars, resolveVars>>

\* find(uri) after its await.  The transport has reduced the 207 body to
\* result and, the Depth being 0, handed out the PropertyMap of its first
\* entry, or undefined when it has none; find() keys that by this._url + uri,
\* resolves it, and returns the first child (or undefined).
findResolved(i, result) ==
    /\ i \in DOMAIN pending
    /\ pending[i].op = "find"
    /\ pending' = Remove(pending, i)
    /\ LET body == << [path |-> pending[i].path,
                       defined |-> result # <<>>,
                       props |-> IF result = <<>> THEN <<>> ELSE result[1].props] >>
           r == _handleMultiStatusResponse(body, FALSE)
       IN IF r.threw
          THEN /\ settled' = Threw("find", "TypeError", body)
               /\ UNCHANGED _childrenNames
          ELSE /\ settled' = Returned("find", IF r.children = <<>> THEN <<>> ELSE <<r.children[1]>>, body)
               /\ _childrenNames' = _childrenNames \o r.index
    /\ UNCHANGED <<_url, _props, _updatedProperties, _propSetFactory, factoryVars, exposed>>
    /\ UNCHANGED <<nCalls, nRequests, lastRequest, requestVars, resolveVars>>

\* The predicates a caller filters with, and filter(node).
Filters == {"hasContentType", "isCalendar"}
Apply(filter, node) ==
    IF filter = "hasContentType"
    THEN GetContentType \in DOMAIN node.props
    ELSE /\ ResourceType \in DOMAIN node.props
         /\ \E n \in DOMAIN node.props[ResourceType] :
               node.props[ResourceType][n] = CalendarType

\* A faulty filter that keeps every node.
FilterNothing(all, filter) == all

\* all.filter(filter)
Filter(all, filter) == SelectSeq(all, LAMBDA node : Apply(filter, node))

\* findAllByFilter(filter), up to the await in the findAll() it calls.
findAllByFilter(filter) ==
    /\ nCalls < MaxFinds
    /\ nCalls' = nCalls + 1
    /\ lastRequest' = [method |-> "PROPFIND", url |-> _url, headers |-> NoHeaders,
                       depth |-> "1", body |-> _propFindList]
    /\ nRequests' = nRequests + 1
    /\ pending' = Append(pending, [op |-> "findAllByFilter", path |-> _url,
                                   filter |-> filter])
    /\ UNCHANGED <<settled, nodeVars, requestVars, resolveVars>>

\* findAllByFilter(filter) after the await: findAll() resolves the response
\* and its children are filtered.
findAllByFilterResolved(i, body) ==
    /\ i \in DOMAIN pending
    /\ pending[i].op = "findAllByFilter"
    /\ pending' = Remove(pending, i)
    /\ LET r == _handleMultiStatusResponse(body, FALSE) IN
          IF r.threw
          THEN /\ settled' = Threw("findAllByFilter", "TypeError", body)
               /\ UNCHANGED _childrenNames
          ELSE /\ settled' = Returned("findAllByFilter",
                                      Filter(r.children, pending[i].filter), body)
               /\ _childrenNames' = _childrenNames \o r.index
    /\ UNCHANGED <<_url, _props, _updatedProperties, _propSetFactory, factoryVars, exposed>>
    /\ UNCHANGED <<nCalls, nRequests, lastRequest, requestVars, resolveVars>>

\* What a server may answer: the PropertyMaps of an entry and the paths.
ResourceTypes == { <<>>, <<DavCollectionType, CalendarType>> }
ContentTypes == { <<"text/calendar", "charset=utf-8">> }
PropertyMaps ==
    {<<>>}
    \cup {(ResourceType :> rt) : rt \in ResourceTypes}
    \cup {(GetContentType :> ct) : ct \in ContentTypes}
    \cup {(ResourceType :> rt) @@ (GetContentType :> ct) :
             rt \in ResourceTypes, ct \in ContentTypes}

Paths == { <<"/", "c", "/">>, <<"/", "c">>, <<"/", "c", "/", "a">>, <<Origin, "/", "c", "/">> }

\* The entries of a result: a member of the collection with any of the
\* PropertyMaps, the collection itself as a calendar collection.
Entries ==
    { e \in [path : Paths, defined : {TRUE}, props : PropertyMaps] :
         \/ e.path = <<"/", "c", "/", "a">>
         \/ e.props = (ResourceType :> <<DavCollectionType, CalendarType>>) }

MultiStatusResults ==
    UNION { { body \in [1..n -> Entries] :
                \A j, k \in 1..n : j # k => body[j].path # body[k].path }
            : n \in 0..MaxEntries }

Uris == { <<>>, <<"a">> }

\* What the reduction of the answer to a Depth-0 PROPFIND can be: no entry,
\* or one entry for any of the paths.
FindResults ==
    {<<>>} \cup {<<e>> : e \in [path : Paths, defined : {TRUE}, props : PropertyMaps]}

InitResolve ==
    /\ \E url \in {<<"/", "c">>, <<"/", "c", "/">>} : Constructed(url, <<>>)
    /\ Idle
    /\ NoTransport
    /\ NoResponse

NextResolve ==
    \/ \E factory \in CollectionFactories :
          _registerCollectionFactory(CalendarType, factory)
    \/ \E factory \in ObjectFactories :
          _registerObjectFactory("text/calendar", factory)
    \/ findAll
    \/ \E uri \in Uris : find(uri)
    \/ \E i \in DOMAIN pending, body \in MultiStatusResults : findAllResolved(i, body)
    \/ \E i \in DOMAIN pending, result \in FindResults : findResolved(i, result)
    \/ \E i \in DOMAIN pending, error \in Failures : awaitRejected(i, error)

SpecResolve == InitResolve /\ [][NextResolve]_vars

(***************************************************************************)
(* The children of a collection whose members are of several types, found  *)
(* with findAll() and findAllByFilter().                                   *)
(***************************************************************************)

\* The PropertyMaps of the members: a calendar object, a calendar that is an
\* address book too, with its types in either order, and a member the server
\* lists no property of.
MemberMaps ==
    { (GetContentType :> <<"text/calendar", "charset=utf-8">>),
      (ResourceType :> <<DavCollectionType, CalendarType, AddressBookType>>),
      (ResourceType :> <<DavCollectionType, AddressBookType, CalendarType>>),
      <<>> }
MemberPaths == { <<"/", "c", "/", "a">>, <<"/", "c", "/", "b">> }
MemberResults ==
    UNION { { body \in [1..n -> [path : MemberPaths, defined : {TRUE}, props : MemberMaps]] :
                \A j, k \in 1..n : j # k => body[j].path # body[k].path }
            : n \in 0..MaxEntries }

InitMembers ==
    /\ Constructed(<<"/", "c", "/">>, <<>>)
    /\ Idle
    /\ NoTransport
    /\ NoResponse

NextMembers ==
    \/ _registerCollectionFactory(CalendarType, CalendarTrashBin)
    \/ _registerObjectFactory("text/calendar", VObject)
    \/ findAll
    \/ \E filter \in Filters : findAllByFilter(filter)
    \/ \E i \in DOMAIN pending, body \in MemberResults : findAllResolved(i, body)
    \/ \E i \in DOMAIN pending, body \in MemberResults : findAllByFilterResolved(i, body)
    \/ \E i \in DOMAIN pending, error \in Failures : awaitRejected(i, error)

SpecMembers == InitMembers /\ [][NextMembers]_vars

(***************************************************************************)
(* A CalendarTrashBin: its constructor has registered VObject for          *)
(* text/calendar and exposed retentionDuration; registrations made after   *)
(* construction meet that one.                                             *)
(***************************************************************************)
RetentionDuration == "{http://nextcloud.com/ns}trash-bin-retention-duration"

\* The node the CalendarTrashBin constructor leaves behind.
ConstructedTrashBin(url, props) ==
    /\ _url = CollectionUrl(url)
    /\ _props = props
    /\ _collectionFactoryMapper = <<>>
    /\ _objectFactoryMapper = ("text/calendar" :> VObject.name)
    /\ _propFindList = DavObjectPropFindList \o DavCollectionPropFindList
                          \o VObject.getPropFindList
    /\ nRegistrations = 0
    /\ _updatedProperties = <<>>
    /\ _childrenNames = <<>>
    /\ _propSetFactory = <<"davCollectionPropSet">>
    /\ exposed = Put(ConstructorExposed, "retentionDuration",
                     [key |-> RetentionDuration, mutable |-> FALSE])

InitTrashBin ==
    /\ ConstructedTrashBin(<<"/", "c", "/">>, <<>>)
    /\ Idle
    /\ NoTransport
    /\ NoResponse

NextTrashBin ==
    \/ \E factory \in CollectionFactories :
          _registerCollectionFactory(CalendarType, factory)
    \/ \E factory \in ObjectFactories :
          _registerObjectFactory("text/calendar", factory)
    \/ findAll
    \/ \E i \in DOMAIN pending, body \in MemberResults : findAllResolved(i, body)
    \/ \E i \in DOMAIN pending, error \in Failures : awaitRejected(i, error)

SpecTrashBin == InitTrashBin /\ [][NextTrashBin]_vars

(***************************************************************************)
(* A node on which properties are written and all of update(), delete(),   *)
(* findAll() and find() are called, each of which the transport may fail.  *)
(***************************************************************************)
NextNode ==
    \/ \E localName \in DOMAIN exposed, val \in Values : SetProperty(localName, val)
    \/ update
    \/ delete
    \/ findAll
    \/ \E uri \in Uris : find(uri)
    \/ \E i \in DOMAIN pending : updateResolved(i)
    \/ \E i \in DOMAIN pending : deleteResolved(i)
    \/ \E i \in DOMAIN pending, body \in MemberResults : findAllResolved(i, body)
    \/ \E i \in DOMAIN pending, result \in FindResults : findResolved(i, result)
    \/ \E i \in DOMAIN pending, error \in Failures : awaitRejected(i, error)

SpecNode == Init /\ [][NextNode]_vars

\* The same node with a findAll() under way: its PROPFIND is sent and not
\* yet answered.  nCalls counts the calls made from here on.
InitRace ==
    /\ Constructed(<<"/", "c">>, (DisplayName :> "a"))
    /\ pending = <<[op |-> "findAll", path |-> _url]>>
    /\ nCalls = 0
    /\ nRequests = 1
    /\ lastRequest = [method |-> "PROPFIND", url |-> _url, headers |-> NoHeaders,
                      depth |-> "1", body |-> _propFindList]
    /\ settled = None
    /\ NoTransport
    /\ NoResponse

SpecRace == InitRace /\ [][NextNode]_vars

(***************************************************************************)
(* One MultiStatusResult resolved more than once.  The constructors keep   *)
(* the props object they are given (_props: props), so a node is kept with *)
(* the entry of the result whose PropertyMap it points to, and a write     *)
(* through the node is a write to that PropertyMap.                        *)
(***************************************************************************)
MaxResolutions == 2

\* The entry of body for path.
EntryOf(body, path) == CHOOSE j \in DOMAIN body : body[j].path = path

\* this._props of a resolved node.
PropsOf(body, node) == body[node.entry].props

\* _handleMultiStatusResponse(response) on the result in responseBody; a call
\* that throws changes nothing.
resolve ==
    /\ Len(resolutions) < MaxResolutions
    /\ LET r == _handleMultiStatusResponse(responseBody, FALSE) IN
          /\ ~r.threw
          /\ resolutions' =
                Append(resolutions,
                       [k \in DOMAIN r.children |->
                           [new |-> r.children[k].new, url |-> r.children[k].url,
                            entry |-> EntryOf(responseBody, r.index[k]),
                            _updatedProperties |-> <<>>]])
          /\ _childrenNames' = _childrenNames \o r.index
    /\ UNCHANGED <<_url, _props, _updatedProperties, _propSetFactory, factoryVars, exposed>>
    /\ UNCHANGED <<responseBody, callVars, requestVars>>

\* node.displayname = val on node k of resolution r, a DavCollection: the set
\* accessor the constructor defines for {DAV:}displayname.
setChildDisplayname(r, k, val) ==
    /\ r \in DOMAIN resolutions
    /\ k \in DOMAIN resolutions[r]
    /\ resolutions[r][k].new = "DavCollection"
    /\ responseBody' = [responseBody EXCEPT ![resolutions[r][k].entry].props =
                           Put(@, DisplayName, val)]
    /\ resolutions' = [resolutions EXCEPT ![r][k]._updatedProperties =
                          IF \A i \in DOMAIN @ : @[i] # DisplayName
                          THEN Append(@, DisplayName)
                          ELSE @]
    /\ UNCHANGED <<nodeVars, callVars, requestVars>>

InitShare ==
    /\ Constructed(<<"/", "c", "/">>, <<>>)
    /\ Idle
    /\ NoTransport
    /\ responseBody \in MultiStatusResults
    /\ resolutions = <<>>

NextShare ==
    \/ resolve
    \/ \E r \in DOMAIN resolutions, val \in Values :
          \E k \in DOMAIN resolutions[r] : setChildDisplayname(r, k, val)

SpecShare == InitShare /\ [][NextShare]_vars

(***************************************************************************)
(* A request on the transport: request() or propFind() hands a request to  *)
(* axios, the server composes its answer, axios resolves or rejects, and   *)
(* the then() or the catch() callback of request() settles the promise.    *)
(***************************************************************************)
MaxNodes == 5
MaxBody == 1

\* request(method, url, headers, body), up to the call of axios.request.
\* absoluteUrl() throws for a URL that does not parse; the async function
\* then rejects with that TypeError, before its then() and catch() exist.
request(method, url, headers, body) ==
    /\ sent = NoConfig
    /\ outcome = NoOutcome
    /\ IF Parses(url)
       THEN /\ sent' = [method |-> method, url |-> absoluteUrl(url),
                        headers |-> AssignHeaders(headers), data |-> body]
            /\ UNCHANGED outcome
       ELSE /\ outcome' = Rejected("TypeError", UndefinedBody, UndefinedNumber)
            /\ UNCHANGED sent
    /\ UNCHANGED <<document, reply, nodeVars, callVars, resolveVars>>

\* The body propFind() serializes: d:propfind, d:prop, one element a property.
PropFindBody(properties) ==
    [name |-> <<NS_DAV, "propfind">>,
     children |-> << [name |-> <<NS_DAV, "prop">>,
                      children |-> [k \in DOMAIN properties |->
                                       [name |-> properties[k]]]] >>]

\* propFind(url, properties, depth, headers): headers.Depth = depth, and the
\* request() of a PROPFIND with the serialized body, up to axios.request.
propFind(url, properties, depth, headers) ==
    /\ sent = NoConfig
    /\ outcome = NoOutcome
    /\ IF Parses(url)
       THEN /\ sent' = [method |-> "PROPFIND", url |-> absoluteUrl(url),
                        headers |-> AssignHeaders(("Depth" :> depth) @@ headers),
                        data |-> PropFindBody(properties)]
            /\ UNCHANGED outcome
       ELSE /\ outcome' = Rejected("TypeError", UndefinedBody, UndefinedNumber)
            /\ UNCHANGED sent
    /\ UNCHANGED <<document, reply, nodeVars, callVars, resolveVars>>

\* The number of elements of a body: its d:response elements, their
\* d:propstat elements and the elements under their d:prop.
RECURSIVE NProps(_)
NProps(propStats) ==
    IF propStats = <<>> THEN 0
    ELSE Len(Head(propStats).props) + NProps(Tail(propStats))
RECURSIVE NPropStats(_)
NPropStats(body) ==
    IF body = <<>> THEN 0
    ELSE Len(Head(body).propstats) + NPropStats(Tail(body))
RECURSIVE NNodes(_)
NNodes(body) ==
    IF body = <<>> THEN 0
    ELSE 1 + Len(Head(body).propstats) + NProps(Head(body).propstats)
           + NNodes(Tail(body))

\* The server writes a d:response element for href.
ServerAddsResponse(href) ==
    /\ sent # NoConfig
    /\ reply = NoReply
    /\ NNodes(document) < MaxNodes
    /\ document' = Append(document, [href |-> href, propstats |-> <<>>])
    /\ UNCHANGED <<sent, reply, outcome, nodeVars, callVars, resolveVars>>

\* The server writes a d:propstat element with a status line into the last
\* d:response.
ServerAddsPropStat(status) ==
    /\ sent # NoConfig
    /\ reply = NoReply
    /\ document # <<>>
    /\ NNodes(document) < MaxNodes
    /\ document' = [document EXCEPT ![Len(document)].propstats =
                       Append(@, [status |-> status, props |-> <<>>])]
    /\ UNCHANGED <<sent, reply, outcome, nodeVars, callVars, resolveVars>>

\* The server writes an element under the d:prop of the last d:propstat.
ServerAddsProp(name, value) ==
    /\ sent # NoConfig
    /\ reply = NoReply
    /\ document # <<>>
    /\ document[Len(document)].propstats # <<>>
    /\ NNodes(document) < MaxNodes
    /\ document' = [document EXCEPT ![Len(document)].propstats =
                       [@ EXCEPT ![Len(@)].props = Append(@, [name |-> name, value |-> value])]]
    /\ UNCHANGED <<sent, reply, outcome, nodeVars, callVars, resolveVars>>

\* The server answers with a status and the document as its body.  axios
\* resolves with the response when validateStatus, which request() sets to
\* wasRequestSuccessful, accepts the status.  It rejects otherwise, with an
\* error that carries the request and keeps the response apart ("request"),
\* or, as the catch() callback reads it, with the status and the data of the
\* response in the error itself ("status").
Answered(status, carries) ==
    /\ sent # NoConfig
    /\ reply = NoReply
    /\ status = 207 \/ (Len(document) <= MaxBody /\ NPropStats(document) = 0)
    /\ reply' = IF wasRequestSuccessful(status)
                THEN [kind |-> "resolved", answered |-> TRUE, status |-> status,
                      data |-> document,
                      isCancel |-> FALSE, request |-> FALSE,
                      errorStatus |-> UndefinedNumber, errorData |-> UndefinedBody]
                ELSE IF carries = "request"
                THEN [kind |-> "rejected", answered |-> TRUE, status |-> status,
                      data |-> document,
                      isCancel |-> FALSE, request |-> TRUE,
                      errorStatus |-> Number(status), errorData |-> UndefinedBody]
                ELSE [kind |-> "rejected", answered |-> TRUE, status |-> status,
                      data |-> document,
                      isCancel |-> FALSE, request |-> FALSE,
                      errorStatus |-> Number(status), errorData |-> RawBody(document)]
    /\ UNCHANGED <<document, sent, outcome, nodeVars, callVars, resolveVars>>

\* No response arrives (xhr.onerror): axios rejects with an error that
\* carries the request and no status.
Unanswered ==
    /\ sent # NoConfig
    /\ reply = NoReply
    /\ document = <<>>
    /\ reply' = [kind |-> "rejected", answered |-> FALSE, status |-> 0, data |-> <<>>,
                 isCancel |-> FALSE, request |-> TRUE,
                 errorStatus |-> UndefinedNumber, errorData |-> UndefinedBody]
    /\ UNCHANGED <<document, sent, outcome, nodeVars, callVars, resolveVars>>

\* The request is cancelled: axios rejects with an error axios.isCancel
\* recognises, with or without the request in it.
Cancelled(withRequest) ==
    /\ sent # NoConfig
    /\ reply = NoReply
    /\ document = <<>>
    /\ reply' = [kind |-> "rejected", answered |-> FALSE, status |-> 0, data |-> <<>>,
                 isCancel |-> TRUE, request |-> withRequest,
                 errorStatus |-> UndefinedNumber, errorData |-> UndefinedBody]
    /\ UNCHANGED <<document, sent, outcome, nodeVars, callVars, resolveVars>>

\* request(), the then() callback
requestThen ==
    /\ reply.kind = "resolved"
    /\ outcome = NoOutcome
    /\ outcome' = Then(sent.method, sent.headers, reply)
    /\ UNCHANGED <<document, sent, reply, nodeVars, callVars, resolveVars>>

\* request(), the catch() callback
requestCatch ==
    /\ reply.kind = "rejected"
    /\ outcome = NoOutcome
    /\ outcome' = Catch(reply)
    /\ UNCHANGED <<document, sent, reply, nodeVars, callVars, resolveVars>>

\* What the model's callers and servers choose from.
Methods == {"REPORT"}
Depths == {"0", "1"}
RequestUrls == {<<"/", "c", "/">>, <<"c", "/">>, <<"http://[">>}
RequestHeaders == {<<>>, ("Depth" :> "1")}
Hrefs == {<<"/", "c", "/">>, <<"/", "c", "/", "a">>}
StatusLines == {<<"HTTP/1.1", "200", "OK">>, <<"HTTP/1.1", "404", "Not", "Found">>,
                <<"200", "OK">>}
PropNodes == {[name |-> DisplayName, value |-> "a"], [name |-> DisplayName, value |-> ""],
              [name |-> "{DAV:}quota-used-bytes", value |-> "a"]}
HttpStatuses == {200, 207, 300, 404, 503}

InitRequest ==
    /\ Constructed(<<"/", "c", "/">>, <<>>)
    /\ Idle
    /\ NoTransport
    /\ NoResponse

NextRequest ==
    \/ \E method \in Methods, url \in RequestUrls, headers \in RequestHeaders :
          request(method, url, headers, <<>>)
    \/ \E url \in RequestUrls, depth \in Depths :
          propFind(url, DavObjectPropFindList, depth, <<>>)
    \/ \E href \in Hrefs : ServerAddsResponse(href)
    \/ \E status \in StatusLines : ServerAddsPropStat(status)
    \/ \E propNode \in PropNodes : ServerAddsProp(propNode.name, propNode.value)
    \/ \E status \in HttpStatuses, carries \in {"request", "status"} :
          Answered(status, carries)
    \/ Unanswered
    \/ \E withRequest \in BOOLEAN : Cancelled(withRequest)
    \/ requestThen
    \/ requestCatch

SpecRequest == InitRequest /\ [][NextRequest]_vars

(***************************************************************************)
(* update() over the transport: the PROPPATCH update() has built is sent,   *)
(* the server answers it, request() settles, and update() goes on after    *)
(* its await with what request() settled with.  The caller awaits an       *)
(* update() before it calls the next.                                      *)
(***************************************************************************)

\* propPatch(this._url, {}, body): request('PROPPATCH', url, headers, body) up
\* to axios.request, for the update() that waits; the answer to an earlier
\* request is gone.
propPatch ==
    /\ sent = NoConfig
    /\ outcome = NoOutcome
    /\ Len(pending) = 1
    /\ pending[1].op = "update"
    /\ sent' = [method |-> "PROPPATCH", url |-> absoluteUrl(lastRequest.url),
                headers |-> AssignHeaders(<<>>), data |-> lastRequest.body]
    /\ document' = <<>>
    /\ reply' = NoReply
    /\ UNCHANGED <<outcome, nodeVars, callVars, resolveVars>>

\* A faulty update() that takes the displayname of a 207 body for its own.
updateResumedMerging(i) ==
    /\ i \in DOMAIN pending
    /\ pending[i].op = "update"
    /\ sent.method = "PROPPATCH"
    /\ outcome.state = "resolved"
    /\ pending' = Remove(pending, i)
    /\ settled' = Returned("update", <<>>, <<>>)
    /\ _props' = IF /\ outcome.body.kind = "multistatus"
                    /\ outcome.body.value # <<>>
                 THEN outcome.body.value[1].props @@ _props
                 ELSE _props
    /\ sent' = NoConfig
    /\ outcome' = NoOutcome
    /\ UNCHANGED <<document, reply>>
    /\ UNCHANGED <<_url, _updatedProperties, _childrenNames, _propSetFactory, factoryVars,
                   exposed>>
    /\ UNCHANGED <<nCalls, nRequests, lastRequest, resolveVars>>

\* update() after its await, the promise of propPatch() resolved: the
\* response is dropped and update() returns.
updateResumed(i) ==
    /\ i \in DOMAIN pending
    /\ pending[i].op = "update"
    /\ sent.method = "PROPPATCH"
    /\ outcome.state = "resolved"
    /\ pending' = Remove(pending, i)
    /\ settled' = Returned("update", <<>>, <<>>)
    /\ sent' = NoConfig
    /\ outcome' = NoOutcome
    /\ UNCHANGED <<document, reply>>
    /\ UNCHANGED <<nCalls, nRequests, lastRequest, nodeVars, resolveVars>>

\* update() after its await, the promise of propPatch() rejected.
updateFailed(i) ==
    /\ i \in DOMAIN pending
    /\ pending[i].op = "update"
    /\ sent.method = "PROPPATCH"
    /\ outcome.state = "rejected"
    /\ pending' = Remove(pending, i)
    /\ settled' = Threw("update", outcome.error, <<>>)
    /\ sent' = NoConfig
    /\ outcome' = NoOutcome
    /\ UNCHANGED <<document, reply>>
    /\ UNCHANGED <<nCalls, nRequests, lastRequest, nodeVars, resolveVars>>

NextUpdate ==
    \/ \E val \in Values : SetProperty("displayname", val)
    \/ (pending = <<>> /\ update)
    \/ propPatch
    \/ ServerAddsResponse(_url)
    \/ \E status \in {<<"HTTP/1.1", "200", "OK">>, <<"HTTP/1.1", "404", "Not", "Found">>} :
          ServerAddsPropStat(status)
    \/ ServerAddsProp(DisplayName, "")
    \/ \E status \in {200, 207, 404} : Answered(status, "status")
    \/ Unanswered
    \/ (sent # NoConfig /\ requestThen)
    \/ (sent # NoConfig /\ requestCatch)
    \/ \E i \in DOMAIN pending : updateResumed(i)
    \/ \E i \in DOMAIN pending : updateFailed(i)

SpecUpdate == Init /\ [][NextUpdate]_vars

(***************************************************************************)
(* createCollection(): a free name is picked, the MKCOL is sent, and the   *)
(* new collection is looked up with find().  A call is made when none is   *)
(* under way.                                                              *)
(***************************************************************************)

\* StringUtility.uri(start, isAvailable): start when it is available, else
\* start with the first of the suffixes -1, -2, ... that makes it so; taken
\* holds the names isAvailable refuses.
Suffixed(start, n) == IF n = 0 THEN start ELSE start \o "-" \o ToString(n)
RECURSIVE StringUtility_uri(_, _, _)
StringUtility_uri(start, taken, n) ==
    IF Suffixed(start, n) \notin taken THEN Suffixed(start, n)
    ELSE StringUtility_uri(start, taken, n + 1)

\* The names a token can come out as.
Candidates(token) == {Suffixed(token, n) : n \in 0..Len(_childrenNames)}

\* A faulty check that looks for a child path only as this._url + name.
_getAvailableNameWithoutSlash(token) ==
    StringUtility_uri(token,
        {name \in Candidates(token) :
            \E j \in DOMAIN _childrenNames : _childrenNames[j] = _url \o <<name>>},
        0)

\* _getAvailableNameFromToken(token): a name is available when neither
\* this._url + name nor this._url + name + '/' is in _childrenNames.
_getAvailableNameFromToken(token) ==
    StringUtility_uri(token,
        {name \in Candidates(token) :
            \E j \in DOMAIN _childrenNames :
               \/ _childrenNames[j] = _url \o <<name>>
               \/ _childrenNames[j] = _url \o <<name, "/">>},
        0)

\* The d:mkcol document for the default props: d:set, d:prop, d:resourcetype
\* with d:collection.
MkColBody == [root |-> "{DAV:}mkcol", props |-> (ResourceType :> <<DavCollectionType>>)]

\* createCollection(name), up to its first await: mkCol(this.url + uri, {}, data).
createCollection(name) ==
    /\ pending = <<>>
    /\ nCalls < MaxCalls + MaxFinds
    /\ nCalls' = nCalls + 1
    /\ LET name_uri == _getAvailableNameFromToken(name) IN
          /\ lastRequest' = [method |-> "MKCOL", url |-> _url \o <<name_uri>>,
                             headers |-> NoHeaders, depth |-> "none", body |-> MkColBody]
          /\ pending' = Append(pending, [op |-> "createCollection", awaits |-> "mkCol",
                                         name |-> name, url |-> _url \o <<name_uri>>,
                                         path |-> _url \o <<name_uri, "/">>])
    /\ nRequests' = nRequests + 1
    /\ UNCHANGED <<settled, nodeVars, requestVars, resolveVars>>

\* createCollection() after its first await: return this.find(uri + '/'), up
\* to the await of find().
mkColResolved(i) ==
    /\ i \in DOMAIN pending
    /\ pending[i].op = "createCollection"
    /\ pending[i].awaits = "mkCol"
    /\ lastRequest' = [method |-> "PROPFIND", url |-> pending[i].path, headers |-> NoHeaders,
                       depth |-> "0", body |-> _propFindList]
    /\ nRequests' = nRequests + 1
    /\ pending' = [pending EXCEPT ![i].awaits = "find"]
    /\ UNCHANGED <<nCalls, settled, nodeVars, requestVars, resolveVars>>

\* The find() of createCollection() after its await, as findResolved; what
\* the call settles with keeps the name it was given and the URL of its MKCOL.
createCollectionFound(i, result) ==
    /\ i \in DOMAIN pending
    /\ pending[i].op = "createCollection"
    /\ pending[i].awaits = "find"
    /\ pending' = Remove(pending, i)
    /\ LET body == << [path |-> pending[i].path,
                       defined |-> result # <<>>,
                       props |-> IF result = <<>> THEN <<>> ELSE result[1].props] >>
           r == _handleMultiStatusResponse(body, FALSE)
           call == [name |-> pending[i].name, url |-> pending[i].url]
       IN IF r.threw
          THEN /\ settled' = Threw("createCollection", "TypeError", call)
               /\ UNCHANGED _childrenNames
          ELSE /\ settled' = Returned("createCollection",
                                      IF r.children = <<>> THEN <<>> ELSE <<r.children[1]>>,
                                      call)
               /\ _childrenNames' = _childrenNames \o r.index
    /\ UNCHANGED <<_url, _props, _updatedProperties, _propSetFactory, factoryVars, exposed>>
    /\ UNCHANGED <<nCalls, nRequests, lastRequest, requestVars, resolveVars>>

\* Either await of createCollection() rejected: the call rejects with error.
createCollectionRejected(i, error) ==
    /\ i \in DOMAIN pending
    /\ pending[i].op = "createCollection"
    /\ pending' = Remove(pending, i)
    /\ settled' = Threw("createCollection", error,
                        [name |-> pending[i].name, url |-> pending[i].url])
    /\ UNCHANGED <<nCalls, nRequests, lastRequest, nodeVars, requestVars, resolveVars>>

\* What the model's callers and servers choose from.
Tokens == {"a", "a-1"}
ListedPaths == { <<"/", "c", "/", "a">>, <<"/", "c", "/", "a", "/">>,
                 <<"/", "c", "/", "a-1", "/">> }
ListedResults ==
    UNION { { body \in [1..n -> [path : ListedPaths, defined : {TRUE},
                                 props : {(ResourceType :> <<DavCollectionType>>)}]] :
                \A j, k \in 1..n : j # k => body[j].path # body[k].path }
            : n \in 0..MaxEntries }
CreatedResults ==
    { <<>>,
      << [path |-> <<"/", "c", "/">>, defined |-> TRUE, props |-> <<>>] >>,
      << [path |-> <<"/", "c", "/">>, defined |-> TRUE,
          props |-> (ResourceType :> <<DavCollectionType>>)] >> }

NextCreate ==
    \/ (pending = <<>> /\ findAll)
    \/ \E body \in ListedResults : \E i \in DOMAIN pending : findAllResolved(i, body)
    \/ \E name \in Tokens : createCollection(name)
    \/ \E i \in DOMAIN pending : mkColResolved(i)
    \/ \E result \in CreatedResults : \E i \in DOMAIN pending : createCollectionFound(i, result)
    \/ \E error \in Failures : \E i \in DOMAIN pending : createCollectionRejected(i, error)

SpecCreate == InitMembers /\ [][NextCreate]_vars

(***************************************************************************)
(* davCollectionPublishable(Base): publish() and unpublish().  A call is   *)
(* made when none is under way; the answer to the PROPFIND of the          *)
(* collection's own URL holds an entry, whose PropertyMap the transport    *)
(* hands out.                                                              *)
(***************************************************************************)
NS_CALENDARSERVER == "http://calendarserver.org/ns/"
PublishUrl == "{http://calendarserver.org/ns/}publish-url"

\* static getPropFindList() of the publishable class
PublishablePropFindList ==
    DavCollectionPropFindList \o << <<NS_CALENDARSERVER, "publish-url">> >>

XmlContentType == ("Content-Type" :> "application/xml; charset=utf-8")

\* delete object[key]
Deleted(object, key) == [k \in DOMAIN object \ {key} |-> object[k]]

\* publish(), up to its first await: post(this._url, headers, xml).
publish ==
    /\ nCalls < MaxCalls
    /\ nCalls' = nCalls + 1
    /\ lastRequest' = [method |-> "POST", url |-> _url, headers |-> XmlContentType,
                       depth |-> "none", body |-> <<NS_CALENDARSERVER, "publish-calendar">>]
    /\ nRequests' = nRequests + 1
    /\ pending' = Append(pending, [op |-> "publish", awaits |-> "post"])
    /\ UNCHANGED <<settled, nodeVars, requestVars, resolveVars>>

\* publish() after its first await: _updatePropsFromServer(), up to its
\* await of propFind(this.url, this.constructor.getPropFindList()), whose
\* depth defaults to 0.
publishPosted(i) ==
    /\ i \in DOMAIN pending
    /\ pending[i].op = "publish"
    /\ pending[i].awaits = "post"
    /\ lastRequest' = [method |-> "PROPFIND", url |-> _url, headers |-> NoHeaders,
                       depth |-> "0", body |-> PublishablePropFindList]
    /\ nRequests' = nRequests + 1
    /\ pending' = [pending EXCEPT ![i].awaits = "propFind"]
    /\ UNCHANGED <<nCalls, settled, nodeVars, requestVars, resolveVars>>

\* A faulty _updatePropsFromServer() that lays the answer over this._props.
_updatePropsFromServerMerging(i, body) ==
    /\ i \in DOMAIN pending
    /\ pending[i].op = "publish"
    /\ pending[i].awaits = "propFind"
    /\ _props' = body @@ _props
    /\ pending' = Remove(pending, i)
    /\ settled' = Returned("publish", <<>>, body)
    /\ UNCHANGED <<_url, _updatedProperties, _childrenNames, _propSetFactory, factoryVars,
                   exposed>>
    /\ UNCHANGED <<nCalls, nRequests, lastRequest, requestVars, resolveVars>>

\* _updatePropsFromServer() after its await: this._props = response.body, and
\* publish() returns.
_updatePropsFromServer(i, body) ==
    /\ i \in DOMAIN pending
    /\ pending[i].op = "publish"
    /\ pending[i].awaits = "propFind"
    /\ _props' = body
    /\ pending' = Remove(pending, i)
    /\ settled' = Returned("publish", <<>>, body)
    /\ UNCHANGED <<_url, _updatedProperties, _childrenNames, _propSetFactory, factoryVars,
                   exposed>>
    /\ UNCHANGED <<nCalls, nRequests, lastRequest, requestVars, resolveVars>>

\* unpublish(), up to its await: post(this._url, headers, xml).
unpublish ==
    /\ nCalls < MaxCalls
    /\ nCalls' = nCalls + 1
    /\ lastRequest' = [method |-> "POST", url |-> _url, headers |-> XmlContentType,
                       depth |-> "none", body |-> <<NS_CALENDARSERVER, "unpublish-calendar">>]
    /\ nRequests' = nRequests + 1
    /\ pending' = Append(pending, [op |-> "unpublish", awaits |-> "post"])
    /\ UNCHANGED <<settled, nodeVars, requestVars, resolveVars>>

\* unpublish() after its await: delete this._props[publish-url].
unpublishPosted(i) ==
    /\ i \in DOMAIN pending
    /\ pending[i].op = "unpublish"
    /\ _props' = Deleted(_props, PublishUrl)
    /\ pending' = Remove(pending, i)
    /\ settled' = Returned("unpublish", <<>>, <<>>)
    /\ UNCHANGED <<_url, _updatedProperties, _childrenNames, _propSetFactory, factoryVars,
                   exposed>>
    /\ UNCHANGED <<nCalls, nRequests, lastRequest, requestVars, resolveVars>>

\* What the collection holds and the server answers with.
PublishedMaps ==
    { <<>>, (PublishUrl :> "a"), (DisplayName :> "a"),
      (DisplayName :> "a") @@ (PublishUrl :> "a") }

InitPublish ==
    /\ \E props \in PublishedMaps : Constructed(<<"/", "c", "/">>, props)
    /\ Idle
    /\ NoTransport
    /\ NoResponse

NextPublish ==
    \/ (pending = <<>> /\ publish)
    \/ (pending = <<>> /\ unpublish)
    \/ \E i \in DOMAIN pending : publishPosted(i)
    \/ \E body \in PublishedMaps : \E i \in DOMAIN pending : _updatePropsFromServer(i, body)
    \/ \E i \in DOMAIN pending : unpublishPosted(i)
    \/ \E error \in Failures : \E i \in DOMAIN pending : awaitRejected(i, error)

SpecPublish == InitPublish /\ [][NextPublish]_vars

(***************************************************************************)
(* Request.copy(), Request.move() and CalendarTrashBin.restore().  Both     *)
(* methods write their three headers into the headers object they are     *)
(* given and hand it to request().  A Destination is a URL, kept as the    *)
(* sequence of its parts like every URL of the model.                      *)
(***************************************************************************)

\* A faulty assignment that leaves the caller's entries where they are.
CopyHeadersCallerWins(headers, destination, depth, overwrite) ==
    headers @@ ("Destination" :> destination) @@ ("Depth" :> depth)
            @@ ("Overwrite" :> IF overwrite THEN "T" ELSE "F")

\* headers.Destination = destination; headers.Depth = depth;
\* headers.Overwrite = overwrite ? 'T' : 'F'
CopyHeaders(headers, destination, depth, overwrite) ==
    Put(Put(Put(headers, "Destination", destination), "Depth", depth),
        "Overwrite", IF overwrite THEN "T" ELSE "F")

\* headers.Destination = destination; headers.Depth = 'Infinity';
\* headers.Overwrite = overwrite ? 'T' : 'F'
MoveHeaders(headers, destination, overwrite) ==
    Put(Put(Put(headers, "Destination", destination), "Depth", "Infinity"),
        "Overwrite", IF overwrite THEN "T" ELSE "F")

\* copy(url, destination, depth, overwrite, headers, body), up to
\* axios.request.
copy(url, destination, depth, overwrite, headers, body) ==
    /\ sent = NoConfig
    /\ outcome = NoOutcome
    /\ IF Parses(url)
       THEN /\ sent' = [method |-> "COPY", url |-> absoluteUrl(url),
                        headers |-> AssignHeaders(
                                       CopyHeaders(headers, destination, depth, overwrite)),
                        data |-> body]
            /\ UNCHANGED outcome
       ELSE /\ outcome' = Rejected("TypeError", UndefinedBody, UndefinedNumber)
            /\ UNCHANGED sent
    /\ UNCHANGED <<document, reply, nodeVars, callVars, resolveVars>>

\* move(url, destination, overwrite, headers, body), up to axios.request.
move(url, destination, overwrite, headers, body) ==
    /\ sent = NoConfig
    /\ outcome = NoOutcome
    /\ IF Parses(url)
       THEN /\ sent' = [method |-> "MOVE", url |-> absoluteUrl(url),
                        headers |-> AssignHeaders(
                                       MoveHeaders(headers, destination, overwrite)),
                        data |-> body]
            /\ UNCHANGED outcome
       ELSE /\ outcome' = Rejected("TypeError", UndefinedBody, UndefinedNumber)
            /\ UNCHANGED sent
    /\ UNCHANGED <<document, reply, nodeVars, callVars, resolveVars>>

\* CalendarTrashBin.restore(uri), up to axios.request:
\* move(uri, this._url + 'restore/file') with overwrite, headers and body at
\* their defaults false, {} and null.
restore(uri) ==
    /\ sent = NoConfig
    /\ outcome = NoOutcome
    /\ IF Parses(uri)
       THEN /\ sent' = [method |-> "MOVE", url |-> absoluteUrl(uri),
                        headers |-> AssignHeaders(
                                       MoveHeaders(<<>>, _url \o <<"restore/file">>, FALSE)),
                        data |-> <<>>]
            /\ UNCHANGED outcome
       ELSE /\ outcome' = Rejected("TypeError", UndefinedBody, UndefinedNumber)
            /\ UNCHANGED sent
    /\ UNCHANGED <<document, reply, nodeVars, callVars, resolveVars>>

\* What a caller passes.
Destinations == {<<"/", "c", "/", "b">>, <<"/", "d", "/">>}
CopyDepths == {"0", "Infinity"}
CallerHeaders ==
    {<<>>,
     ("If-Match" :> "e"),
     ("Destination" :> <<"/", "x">>) @@ ("Depth" :> "1") @@ ("Overwrite" :> "T")
        @@ ("If-Match" :> "e")}

\* What a caller of request() passes.
PlainHeaders ==
    {<<>>,
     ("Depth" :> "1") @@ ("If-Match" :> "e"),
     ("Content-Type" :> "text/calendar") @@ ("If-Match" :> "e")}

InitTransfer ==
    /\ Constructed(<<"/", "c", "/">>, <<>>)
    /\ Idle
    /\ NoTransport
    /\ NoResponse

NextTransfer ==
    \/ \E url \in RequestUrls, destination \in Destinations, depth \in CopyDepths,
          overwrite \in BOOLEAN, headers \in CallerHeaders :
          copy(url, destination, depth, overwrite, headers, <<>>)
    \/ \E url \in RequestUrls, destination \in Destinations, overwrite \in BOOLEAN,
          headers \in CallerHeaders :
          move(url, destination, overwrite, headers, <<>>)
    \/ \E uri \in RequestUrls : restore(uri)
    \/ \E method \in Methods, url \in RequestUrls, headers \in PlainHeaders :
          request(method, url, headers, <<>>)
    \/ \E status \in HttpStatuses, carries \in {"request", "status"} :
          Answered(status, carries)
    \/ Unanswered
    \/ \E withRequest \in BOOLEAN : Cancelled(withRequest)
    \/ requestThen
    \/ requestCatch

SpecTransfer == InitTransfer /\ [][NextTransfer]_vars

(***************************************************************************)
(* Request.filename().  A URL is here the sequence of its characters, "/"   *)
(* and the letters of the names, so that slice() and lastIndexOf() are the  *)
(* operations of the code; a URL is relative to the base URL or an absolute *)
(* path.                                                                    *)
(***************************************************************************)
MaxUrl == 4

\* pathname.lastIndexOf('/'), counted from 1; 0 when there is none.
lastIndexOf(string) ==
    IF \E n \in DOMAIN string : string[n] = "/"
    THEN CHOOSE n \in DOMAIN string :
            /\ string[n] = "/"
            /\ \A m \in DOMAIN string : m > n => string[m] # "/"
    ELSE 0

\* filename(url)
filename(url) ==
    LET full == pathname(url)
        stripped == IF full # <<>> /\ full[Len(full)] = "/"
                    THEN SubSeq(full, 1, Len(full) - 1)
                    ELSE full
        slashPos == lastIndexOf(stripped)
    IN  IF slashPos = 0
        THEN (IF stripped = <<>> THEN <<>> ELSE <<stripped[Len(stripped)]>>)
        ELSE SubSeq(stripped, slashPos, Len(stripped))

\* filename(url) called: what it returned, kept with the URL it was given.
filenameCalled(url) ==
    /\ settled' = Returned("filename", <<filename(url)>>, url)
    /\ UNCHANGED <<pending, nCalls, nRequests, lastRequest, nodeVars, requestVars,
                   resolveVars>>

\* The URLs a caller passes: no "//" at the start, which would name a host.
FileUrls ==
    UNION { { url \in [1..n -> {"/", "a", "b"}] :
                ~(n >= 2 /\ url[1] = "/" /\ url[2] = "/") }
            : n \in 0..MaxUrl }

InitPath ==
    /\ Constructed(<<"/", "c", "/">>, <<>>)
    /\ Idle
    /\ NoTransport
    /\ NoResponse

NextPath == \E url \in FileUrls : filenameCalled(url)

SpecPath == InitPath /\ [][NextPath]_vars

(***************************************************************************)
(* Claims about update().                                                  *)
(***************************************************************************)

\* C1: when update() completes successfully (its PROPPATCH resolved, so the
\* dirty set was non-empty when it was called), the node's dirty set is
\* empty afterwards.
C1_DirtyClearedOnSuccess ==
    [][(\E i \in DOMAIN pending : updateResolved(i)) => _updatedProperties' = <<>>]_vars

\* C2: update() on a node whose dirty set is empty makes no call on the
\* transport and leaves the PropertyMap and the dirty set as they were.
C2_UpdateNoopWhenClean ==
    [][(update /\ _updatedProperties = <<>>) =>
          /\ nRequests' = nRequests
          /\ lastRequest' = lastRequest
          /\ pending' = pending
          /\ _props' = _props
          /\ _updatedProperties' = _updatedProperties]_vars

\* An update() returned without any request having been made.
C2_Witness ==
    /\ settled = Returned("update", <<>>, <<>>)
    /\ nCalls > 0
    /\ nRequests = 0
    /\ _updatedProperties = <<>>

\* The element an encoder is to emit for a property, by the encoders' contract.
ElementName(key) ==
    CASE key = DisplayName -> <<NS_DAV, "displayname">>
      [] key = AddressBookDescription -> <<NS_IETF_CARDDAV, "addressbook-description">>
      [] key = OwnCloudEnabled -> <<NS_OWNCLOUD, "enabled">>

ElementValue(key, value) ==
    IF key = OwnCloudEnabled THEN (IF value = "" THEN "0" ELSE "1") ELSE value

Handles(p, key) ==
    \/ p = "davCollectionPropSet" /\ key = DisplayName
    \/ p = "addressBookPropSet" /\ key \in {AddressBookDescription, OwnCloudEnabled}

\* The children of propertyupdate/set/prop in a PROPPATCH body.
PropElements(body) ==
    IF /\ body.name = <<NS_DAV, "propertyupdate">>
       /\ Len(body.children) = 1
       /\ body.children[1].name = <<NS_DAV, "set">>
       /\ Len(body.children[1].children) = 1
       /\ body.children[1].children[1].name = <<NS_DAV, "prop">>
    THEN body.children[1].children[1].children
    ELSE << [name |-> <<"malformed", "body">>, value |-> ""] >>

\* C3: update() on a node with a non-empty dirty set makes exactly one call,
\* a PROPPATCH to the node's own URL, whose propertyupdate/set/prop body holds
\* the encoded current value of every dirty property a registered encoder
\* handles and no element of a property that is not dirty.
C3_UpdateSendsDirtyProperties ==
    [][(update /\ _updatedProperties # <<>>) =>
          LET elements == PropElements(lastRequest'.body)
              dirty == {_updatedProperties[i] : i \in DOMAIN _updatedProperties}
          IN  /\ nRequests' = nRequests + 1
              /\ lastRequest'.method = "PROPPATCH"
              /\ lastRequest'.url = _url
              /\ \A key \in dirty :
                    (\E j \in DOMAIN _propSetFactory : Handles(_propSetFactory[j], key))
                    => \E e \in DOMAIN elements :
                          /\ elements[e].name = ElementName(key)
                          /\ elements[e].value = ElementValue(key, _props[key])
              /\ \A e \in DOMAIN elements :
                    \E key \in dirty :
                       /\ elements[e].name = ElementName(key)
                       /\ elements[e].value = ElementValue(key, _props[key])]_vars

\* A PROPPATCH went out that carries two encoded properties, one of them
\* {http://owncloud.org/ns}enabled, while {DAV:}displayname is held but clean.
C3_Witness ==
    /\ lastRequest.method = "PROPPATCH"
    /\ Len(PropElements(lastRequest.body)) = 2
    /\ \E e \in DOMAIN PropElements(lastRequest.body) :
          PropElements(lastRequest.body)[e].name = <<NS_OWNCLOUD, "enabled">>
    /\ DisplayName \in DOMAIN _props
    /\ \A i \in DOMAIN _updatedProperties : _updatedProperties[i] # DisplayName

(***************************************************************************)
(* Claims about the resolution of a multi-status result.                   *)
(***************************************************************************)

\* The entries of a response that are not the collection's own: their path
\* is neither the collection URL nor the collection URL without its "/".
ChildEntries(response) ==
    SelectSeq(response, LAMBDA e : e.path # _url /\ e.path \o <<"/">> # _url)

ObjectConstructors == {"DavObject"} \cup {f.name : f \in ObjectFactories}
CollectionConstructors == {"DavCollection"} \cup {f.name : f \in CollectionFactories}

\* C7: every entry other than the collection's own yields exactly one node,
\* an Object iff its resource type is absent or empty and its content type is
\* present, and a Collection in every other case, the entry with neither
\* property included.
C7_EveryEntryClassified ==
    (settled.op = "findAll" /\ settled.error \notin Errors) =>
       LET others == ChildEntries(settled.response) IN
       /\ settled.state = "resolved"
       /\ Len(settled.value) = Len(others)
       /\ \A k \in DOMAIN others :
             LET props == others[k].props
                 object == /\ \/ ResourceType \notin DOMAIN props
                              \/ props[ResourceType] = <<>>
                           /\ GetContentType \in DOMAIN props
             IN  /\ object => settled.value[k].new \in ObjectConstructors
                 /\ ~object => settled.value[k].new \in CollectionConstructors

(***************************************************************************)
(* Claims about the reduction of a 207 body.                               *)
(***************************************************************************)

\* The body without propstat j of response i.
WithoutPropStat(body, i, j) ==
    [body EXCEPT ![i].propstats = Remove(@, j)]

\* A propstat element whose status line carries no code from 200 to 299.
FailedPropStat(propStatNode) ==
    LET code == getStatusCodeFromString(propStatNode.status)
    IN ~(code >= 200 /\ code <= 299)

\* A request was answered with a 207 and resolved with the result keyed by
\* path.
ReducedAnswer ==
    /\ reply.kind = "resolved"
    /\ reply.status = 207
    /\ outcome.state = "resolved"
    /\ outcome.body.kind = "multistatus"

\* C4: a propstat block whose status code is outside [200,300) contributes
\* nothing to the PropertyMap of its path, whatever it lists and whatever the
\* other blocks of the response hold: the reduced result is the one the body
\* without that block reduces to, and every property of a PropertyMap is
\* listed by a block of a response for that path whose code is in [200,300).
C4_FailedPropStatContributesNothing ==
    ReducedAnswer =>
       /\ \A i \in DOMAIN document : \A j \in DOMAIN document[i].propstats :
             FailedPropStat(document[i].propstats[j]) =>
                outcome.body.value = _parseMultiStatusResponse(WithoutPropStat(document, i, j))
       /\ \A k \in DOMAIN outcome.body.value : \A name \in DOMAIN outcome.body.value[k].props :
             \E i \in DOMAIN document : \E j \in DOMAIN document[i].propstats :
                /\ document[i].href = outcome.body.value[k].path
                /\ ~FailedPropStat(document[i].propstats[j])
                /\ \E n \in DOMAIN document[i].propstats[j].props :
                      document[i].propstats[j].props[n].name = name

\* A response with a 404 block that lists displayname next to a 200 block
\* that does not was reduced to a PropertyMap without displayname.
C4_Witness ==
    /\ ReducedAnswer
    /\ Len(document) = 1
    /\ Len(document[1].propstats) = 2
    /\ document[1].propstats[1].status = <<"HTTP/1.1", "404", "Not", "Found">>
    /\ document[1].propstats[1].props = << [name |-> DisplayName, value |-> "a"] >>
    /\ document[1].propstats[2].status = <<"HTTP/1.1", "200", "OK">>
    /\ document[1].propstats[2].props # <<>>
    /\ Len(outcome.body.value) = 1
    /\ DisplayName \notin DOMAIN outcome.body.value[1].props

\* C5: an element the parser has no decoder for never becomes a key of a
\* PropertyMap and never makes the request fail: a request answered with a
\* 207 resolves, and every key of every PropertyMap it resolves with is a
\* name the parser can decode.
C5_UnknownPropertySkipped ==
    (reply.kind = "resolved" /\ reply.status = 207 /\ outcome # NoOutcome) =>
       /\ outcome.state = "resolved"
       /\ outcome.body.kind = "multistatus" =>
             \A k \in DOMAIN outcome.body.value :
                DOMAIN outcome.body.value[k].props \subseteq Decodable
       /\ outcome.body.kind = "propertymap" =>
             DOMAIN outcome.body.value \subseteq Decodable

\* A successful block that lists an element without a decoder next to
\* displayname was reduced to a PropertyMap with displayname alone.
C5_Witness ==
    /\ ReducedAnswer
    /\ Len(document) = 1
    /\ Len(document[1].propstats) = 1
    /\ document[1].propstats[1].status = <<"HTTP/1.1", "200", "OK">>
    /\ document[1].propstats[1].props =
          << [name |-> "{DAV:}quota-used-bytes", value |-> "a"],
             [name |-> DisplayName, value |-> "a"] >>
    /\ outcome.body.value[1].props = (DisplayName :> "a")

(***************************************************************************)
(* Claims about request().                                                 *)
(***************************************************************************)

C9_ClassifiedByStatus ==
    outcome # NoOutcome =>
       /\ (reply.answered /\ reply.status >= 400 /\ reply.status < 500) =>
             outcome = Rejected("NetworkRequestClientError", RawBody(reply.data),
                                Number(reply.status))
       /\ (reply.answered /\ reply.status >= 500 /\ reply.status < 600) =>
             outcome = Rejected("NetworkRequestServerError", RawBody(reply.data),
                                Number(reply.status))
       /\ outcome.error = "NetworkRequestError" => ~reply.answered

\* C10: a call on the transport resolves with a status in [200,300) or fails
\* with one of the five errors of the transport, and a cancelled request
\* fails with a NetworkRequestAbortedError.
C10_ResolvedOrClassified ==
    outcome # NoOutcome =>
       /\ \/ /\ outcome.state = "resolved"
             /\ outcome.status.defined
             /\ outcome.status.value >= 200
             /\ outcome.status.value < 300
          \/ /\ outcome.state = "rejected"
             /\ outcome.error \in Errors
       /\ reply.isCancel => outcome.error = "NetworkRequestAbortedError"

\* C11: a response with status 207 is never handed over with its raw body:
\* the body is the reduced result, or for a PROPFIND with Depth 0 the first
\* PropertyMap of the reduced result; a response with another 2xx status is
\* handed over with its body as it came.
C11_MultiStatusAlwaysReduced ==
    outcome.state = "resolved" =>
       /\ outcome.status = Number(reply.status)
       /\ reply.status = 207 =>
             /\ outcome.body.kind # "raw"
             /\ ~(sent.method = "PROPFIND" /\ sent.headers["Depth"] = "0") =>
                   outcome.body = MultiStatusBody(_parseMultiStatusResponse(document))
       /\ reply.status # 207 => outcome.body = RawBody(reply.data)

\* A REPORT was answered with a 207 that lists a property, and resolved with
\* the reduced result.
C11_Witness ==
    /\ outcome.state = "resolved"
    /\ sent.method = "REPORT"
    /\ reply.status = 207
    /\ outcome.body.kind = "multistatus"
    /\ Len(outcome.body.value) = 1
    /\ outcome.body.value[1].props = (DisplayName :> "a")

(***************************************************************************)
(* Claims about nodes resolved from one result.                            *)
(***************************************************************************)

\* C12: resolving a MultiStatusResult again gives a node sequence equal to
\* the first, and a write to a mutable property of a node of one resolution
\* changes neither the PropertyMap nor the dirty set of a node of another
\* resolution, nor the MultiStatusResult.
C12_ResolutionsIndependent ==
    [][\A r \in DOMAIN resolutions, val \in Values :
          \A k \in DOMAIN resolutions[r] :
             setChildDisplayname(r, k, val) =>
                /\ responseBody' = responseBody
                /\ \A r2 \in DOMAIN resolutions \ {r} :
                      \A k2 \in DOMAIN resolutions[r2] :
                         /\ PropsOf(responseBody', resolutions'[r2][k2]) =
                               PropsOf(responseBody, resolutions[r2][k2])
                         /\ resolutions'[r2][k2]._updatedProperties =
                               resolutions[r2][k2]._updatedProperties]_vars

(***************************************************************************)
(* Claims about writes to exposed properties.                              *)
(***************************************************************************)

\* The dirty set holds a name at most once, and only the names of properties
\* exposed as mutable.
DirtyNamesOnceAndMutable ==
    /\ \A i, j \in DOMAIN _updatedProperties :
          _updatedProperties[i] = _updatedProperties[j] => i = j
    /\ \A i \in DOMAIN _updatedProperties :
          \E localName \in DOMAIN exposed :
             /\ exposed[localName].mutable
             /\ exposed[localName].key = _updatedProperties[i]

\* C13: a write to a mutable exposed property stores the value under the
\* property's qualified name and leaves that name in the dirty set; the
\* dirty set holds a name at most once and holds only the names of
\* properties exposed as mutable, at construction and after every step.
C13_WriteMarksDirtyOnce ==
    /\ DirtyNamesOnceAndMutable
    /\ [][/\ DirtyNamesOnceAndMutable'
          /\ \A localName \in {l \in DOMAIN exposed : exposed[l].mutable}, val \in Values :
                SetProperty(localName, val) =>
                   /\ exposed[localName].key \in DOMAIN _props'
                   /\ _props'[exposed[localName].key] = val
                   /\ \E i \in DOMAIN _updatedProperties' :
                         _updatedProperties'[i] = exposed[localName].key
                   /\ \A key \in DOMAIN _props \ {exposed[localName].key} :
                         key \in DOMAIN _props' /\ _props'[key] = _props[key]]_vars

\* displayname, constructed as "a", was overwritten with "" after another
\* property had been written: both names are dirty, each once.
C13_Witness ==
    /\ _updatedProperties = <<AddressBookDescription, DisplayName>>
    /\ _props = (AddressBookDescription :> "a") @@ (DisplayName :> "")
    /\ nCalls = 0

(***************************************************************************)
(* Claims about the entries of a reduced answer.                           *)
(***************************************************************************)

\* The PropertyMap already held for href, or an empty one.
HeldFor(result, href) ==
    IF \E k \in DOMAIN result : result[k].path = href
    THEN result[CHOOSE k \in DOMAIN result : result[k].path = href].props
    ELSE <<>>

\* The reduction in which every successful write of every d:response of a
\* path lands in that path's one PropertyMap, later writes over earlier ones.
RECURSIVE ReduceKeepingWrites(_, _)
ReduceKeepingWrites(responses, result) ==
    IF responses = <<>> THEN result
    ELSE LET responseNode == Head(responses) IN
         ReduceKeepingWrites(Tail(responses),
                             SetEntry(result, responseNode.href,
                                      ParsePropStats(responseNode.propstats,
                                                     HeldFor(result, responseNode.href))))

\* C14: when a path appears in more than one d:response, the reduced map
\* holds for that path, key by key, the value of the last successful write
\* across all of those elements.
C14_LastWriteWinsPerKey ==
    (/\ outcome.state = "resolved"
     /\ reply.status = 207
     /\ outcome.body.kind = "multistatus")
    => \A k \in DOMAIN ReduceKeepingWrites(document, <<>>) :
          /\ k \in DOMAIN outcome.body.value
          /\ outcome.body.value[k].path = ReduceKeepingWrites(document, <<>>)[k].path
          /\ outcome.body.value[k].props = ReduceKeepingWrites(document, <<>>)[k].props

C16_ObjectByMimeType ==
    [][(\E i \in DOMAIN pending : findAllResolved(i, settled'.response)) =>
          LET others == ChildEntries(settled'.response) IN
          \A k \in DOMAIN others :
             (/\ settled'.state = "resolved"
              /\ IdentifiedAsFile(others[k].props)) =>
                LET mimeType == Head(others[k].props[GetContentType])
                    node == settled'.value[k]
                IN  /\ node.parent = _url
                    /\ node.url = pathname(others[k].path)
                    /\ node.props = others[k].props
                    /\ IF mimeType \in DOMAIN _objectFactoryMapper
                       THEN /\ node.new = _objectFactoryMapper[mimeType]
                            /\ node.isPartial = "false"
                       ELSE /\ node.new = "DavObject"
                            /\ node.isPartial = "none"]_vars

\* findAll() returned a VObject for an entry whose content type carries a
\* parameter after the MIME type.
C16_Witness ==
    /\ settled.op = "findAll"
    /\ settled.state = "resolved"
    /\ Len(settled.value) = 1
    /\ settled.value[1].new = "VObject"
    /\ settled.value[1].isPartial = "false"
    /\ settled.value[1].props = (GetContentType :> <<"text/calendar", "charset=utf-8">>)

\* C17: for an entry classified as a collection the node type is chosen by
\* the first resource type, in the order of the sequence, that is not the DAV
\* collection: the constructor registered for it, the generic DavCollection
\* when none is registered for it or when there is no such type; the types
\* after it never influence the choice.
C17_CollectionByFirstOtherType ==
    [][(\E i \in DOMAIN pending : findAllResolved(i, settled'.response)) =>
          LET others == ChildEntries(settled'.response) IN
          \A k \in DOMAIN others :
             (/\ settled'.state = "resolved"
              /\ ~IdentifiedAsFile(others[k].props)) =>
                LET resourcetype == others[k].props[ResourceType]
                    node == settled'.value[k]
                    first == {n \in DOMAIN resourcetype :
                                 /\ resourcetype[n] # DavCollectionType
                                 /\ \A m \in 1..(n - 1) : resourcetype[m] = DavCollectionType}
                IN  /\ node.parent = _url
                    /\ node.props = others[k].props
                    /\ node.isPartial = "none"
                    /\ IF \E n \in first : resourcetype[n] \in DOMAIN _collectionFactoryMapper
                       THEN \A n \in first :
                               node.new = _collectionFactoryMapper[resourcetype[n]]
                       ELSE node.new = "DavCollection"]_vars

\* With a constructor registered for calendars only, findAll() returned the
\* generic DavCollection for an address book that is a calendar too.
C17_Witness ==
    /\ settled.op = "findAll"
    /\ settled.state = "resolved"
    /\ Len(settled.value) = 1
    /\ settled.value[1].new = "DavCollection"
    /\ settled.value[1].props =
          (ResourceType :> <<DavCollectionType, AddressBookType, CalendarType>>)
    /\ DOMAIN _collectionFactoryMapper = {CalendarType}

(***************************************************************************)
(* Claims about find() and findAllByFilter().                              *)
(***************************************************************************)

\* C18: find(uri) issues exactly one PROPFIND with Depth 0 for the
\* collection URL followed by uri and returns the one node resolved for that
\* path; when the answer holds no entry for that path, find() ends in an
\* error the caller sees and returns neither a node nor an empty value.
C18_FindReturnsNodeOrFails ==
    [][/\ \A uri \in Uris :
             find(uri) =>
                /\ nRequests' = nRequests + 1
                /\ lastRequest'.method = "PROPFIND"
                /\ lastRequest'.depth = "0"
                /\ lastRequest'.url = _url \o uri
       /\ \A i \in DOMAIN pending, result \in FindResults :
             findResolved(i, result) =>
                /\ nRequests' = nRequests
                /\ IF \E k \in DOMAIN result : result[k].path = pending[i].path
                   THEN /\ settled'.state = "resolved"
                        /\ Len(settled'.value) = 1
                        /\ settled'.value[1].props =
                              result[CHOOSE k \in DOMAIN result :
                                        result[k].path = pending[i].path].props
                   ELSE settled'.state = "rejected"]_vars

\* The nodes of all that satisfy filter, in the order of all.
RECURSIVE Satisfying(_, _)
Satisfying(all, filter) ==
    IF all = <<>> THEN <<>>
    ELSE IF Apply(filter, Head(all))
    THEN <<Head(all)>> \o Satisfying(Tail(all), filter)
    ELSE Satisfying(Tail(all), filter)

\* C19: findAllByFilter(predicate) issues exactly the one Depth-1 PROPFIND
\* on the collection's own URL that findAll() issues, and returns exactly
\* the nodes of findAll()'s result that satisfy the predicate, in their
\* order; it fails as findAll() fails.
C19_FilterOverFindAll ==
    [][/\ \A filter \in Filters :
             findAllByFilter(filter) =>
                /\ nRequests' = nRequests + 1
                /\ lastRequest' = [method |-> "PROPFIND", url |-> _url,
                                   headers |-> NoHeaders, depth |-> "1",
                                   body |-> _propFindList]
       /\ \A i \in DOMAIN pending :
             findAllByFilterResolved(i, settled'.response) =>
                LET all == _handleMultiStatusResponse(settled'.response, FALSE) IN
                /\ nRequests' = nRequests
                /\ all.threw => settled'.state = "rejected"
                /\ ~all.threw =>
                      /\ settled'.state = "resolved"
                      /\ settled'.value = Satisfying(all.children, pending[i].filter)
                      /\ _childrenNames' = _childrenNames \o all.index]_vars

\* findAllByFilter() kept the calendar of a response with two children, the
\* other a calendar object.
C19_Witness ==
    /\ settled.op = "findAllByFilter"
    /\ settled.state = "resolved"
    /\ Len(ChildEntries(settled.response)) = 2
    /\ \E k \in DOMAIN settled.response :
          GetContentType \in DOMAIN settled.response[k].props
    /\ Len(settled.value) = 1
    /\ settled.value[1].props =
          (ResourceType :> <<DavCollectionType, CalendarType, AddressBookType>>)

(***************************************************************************)
(* Claims about the headers of COPY and MOVE.                              *)
(***************************************************************************)

\* The entries of the caller's headers under other names are sent as given.
OthersKept(headers) ==
    \A name \in DOMAIN headers \ {"Destination", "Depth", "Overwrite"} :
       /\ name \in DOMAIN sent'.headers
       /\ sent'.headers[name] = headers[name]

\* C20: a COPY is sent with the Destination, Depth and Overwrite of its
\* explicit parameters, a MOVE with the Destination of its parameter and
\* Depth: Infinity; Overwrite is 'T' exactly when the overwrite parameter is
\* true and 'F' otherwise; and these values are sent whatever the caller's
\* headers hold under the same names.
C20_CopyMoveHeaders ==
    [][/\ \A url \in RequestUrls, destination \in Destinations, depth \in CopyDepths,
             overwrite \in BOOLEAN, headers \in CallerHeaders :
             (copy(url, destination, depth, overwrite, headers, <<>>) /\ sent' # sent) =>
                /\ sent'.method = "COPY"
                /\ sent'.headers["Destination"] = destination
                /\ sent'.headers["Depth"] = depth
                /\ sent'.headers["Overwrite"] = "T" <=> overwrite
                /\ sent'.headers["Overwrite"] = "F" <=> ~overwrite
                /\ OthersKept(headers)
       /\ \A url \in RequestUrls, destination \in Destinations, overwrite \in BOOLEAN,
             headers \in CallerHeaders :
             (move(url, destination, overwrite, headers, <<>>) /\ sent' # sent) =>
                /\ sent'.method = "MOVE"
                /\ sent'.headers["Destination"] = destination
                /\ sent'.headers["Depth"] = "Infinity"
                /\ sent'.headers["Overwrite"] = "T" <=> overwrite
                /\ sent'.headers["Overwrite"] = "F" <=> ~overwrite
                /\ OthersKept(headers)
       /\ \A uri \in RequestUrls :
             (restore(uri) /\ sent' # sent) =>
                /\ sent'.method = "MOVE"
                /\ sent'.headers["Destination"] = _url \o <<"restore/file">>
                /\ sent'.headers["Depth"] = "Infinity"
                /\ sent'.headers["Overwrite"] = "F"]_vars

\* A COPY was sent with Depth: Infinity and Overwrite: F and the caller's
\* If-Match; a caller's headers that named Depth: 1 and Overwrite: T are among
\* those that lead here.
C20_Witness ==
    /\ sent.method = "COPY"
    /\ sent.headers["Depth"] = "Infinity"
    /\ sent.headers["Overwrite"] = "F"
    /\ sent.headers["Destination"] = <<"/", "d", "/">>
    /\ "If-Match" \in DOMAIN sent.headers
    /\ outcome.state = "resolved"

(***************************************************************************)
(* Claims about the headers of every request.                              *)
(***************************************************************************)

\* C21: a request is sent with a Depth and a Content-Type header: Depth is
\* '0' and Content-Type the XML content type unless the headers given to
\* request() hold that header, and then the given value is sent; the headers
\* given beyond these two are sent unchanged, and nothing else is sent.
C21_DefaultHeadersUnlessGiven ==
    [][\A method \in Methods, url \in RequestUrls, headers \in PlainHeaders :
          (request(method, url, headers, <<>>) /\ sent' # sent) =>
             /\ DOMAIN sent'.headers = DOMAIN headers \cup {"Depth", "Content-Type"}
             /\ sent'.headers["Depth"] =
                   IF "Depth" \in DOMAIN headers THEN headers["Depth"] ELSE "0"
             /\ sent'.headers["Content-Type"] =
                   IF "Content-Type" \in DOMAIN headers THEN headers["Content-Type"]
                   ELSE "application/xml; charset=utf-8"
             /\ \A name \in DOMAIN headers : sent'.headers[name] = headers[name]]_vars

\* A REPORT was sent with the default Depth, the caller's Content-Type and the
\* caller's If-Match.
C21_Witness ==
    /\ sent.method = "REPORT"
    /\ sent.headers = ("Depth" :> "0") @@ ("Content-Type" :> "text/calendar")
                         @@ ("If-Match" :> "e")

(***************************************************************************)
(* Claims about filename().                                                *)
(***************************************************************************)

\* The path of url with one trailing separator removed.
WithoutTrailingSeparator(url) ==
    LET full == pathname(url) IN
    IF full # <<>> /\ full[Len(full)] = "/" THEN SubSeq(full, 1, Len(full) - 1) ELSE full

\* The final segment of a path: what follows its last separator.
RECURSIVE FinalSegment(_)
FinalSegment(path) ==
    IF path = <<>> \/ path[Len(path)] = "/" THEN <<>>
    ELSE FinalSegment(SubSeq(path, 1, Len(path) - 1)) \o <<path[Len(path)]>>

\* C22: filename(url) returns the final segment of the URL's path after one
\* trailing separator, if there is one, has been removed; it returns the same
\* for a URL with and without a trailing separator.
C22_FilenameIsFinalSegment ==
    settled.op = "filename" =>
       LET url == settled.response IN
       /\ settled.value[1] = FinalSegment(WithoutTrailingSeparator(url))
       /\ (url # <<>> /\ url[Len(url)] # "/") =>
             filename(url \o <<"/">>) = settled.value[1]

(***************************************************************************)
(* Claims about the registration of constructors.                          *)
(***************************************************************************)

IsUpdate ==
    /\ _updatedProperties = <<>> \/ lastRequest'.method = "PROPPATCH"
    /\ update
IsDelete == lastRequest'.method = "DELETE" /\ delete
IsFindAll == lastRequest'.method = "PROPFIND" /\ findAll
IsFind == lastRequest'.method = "PROPFIND" /\ \E uri \in Uris : find(uri)

\* What of the node a failed operation must leave as it was.
NodeStateKept ==
    /\ _props' = _props
    /\ _updatedProperties' = _updatedProperties
    /\ _childrenNames' = _childrenNames

\* C24: when the request of findAll(), find(), update() or delete() fails
\* with an error, the operation fails with that same error, and neither the
\* call nor the failure changes the node's PropertyMap, dirty set or
\* childrenNames.
C24_FailurePropagatesUnchanged ==
    [][/\ (IsUpdate \/ IsDelete \/ IsFindAll \/ IsFind) => NodeStateKept
       /\ \A i \in DOMAIN pending, error \in Failures :
             awaitRejected(i, error) =>
                /\ settled'.state = "rejected"
                /\ settled'.op = pending[i].op
                /\ settled'.error = error
                /\ NodeStateKept]_vars

\* A find() of a node with a dirty property failed with the transport's
\* server error.
C24_Witness ==
    /\ settled.op = "find"
    /\ settled.state = "rejected"
    /\ settled.error = "NetworkRequestServerError"
    /\ _updatedProperties = <<DisplayName>>

(***************************************************************************)
(* Claims about calls under way at the same time.                          *)
(***************************************************************************)

\* C25: update() and findAll() calls started while an earlier one is under
\* way are neither served in turn nor merged: each sends its own request at
\* once, whatever is pending, any of the pending calls can be the next to go
\* on, and a findAll() that goes on appends its children's paths to
\* childrenNames then, after those of the calls that went on before it.
C25_CallsRaceInCompletionOrder ==
    /\ [](\A i \in DOMAIN pending :
             /\ pending[i].op = "update" => ENABLED updateResolved(i)
             /\ pending[i].op = "findAll" =>
                   ENABLED (\E body \in MemberResults : findAllResolved(i, body)))
    /\ [][/\ (IsUpdate /\ _updatedProperties # <<>>) =>
                /\ nRequests' = nRequests + 1
                /\ pending' = Append(pending, [op |-> "update"])
          /\ IsFindAll =>
                /\ nRequests' = nRequests + 1
                /\ pending' = Append(pending, [op |-> "findAll", path |-> _url])
          /\ \A i \in DOMAIN pending :
                (findAllResolved(i, settled'.response) /\ settled'.state = "resolved") =>
                   /\ pending' = Remove(pending, i)
                   /\ _childrenNames' =
                         _childrenNames
                            \o [k \in DOMAIN ChildEntries(settled'.response) |->
                                   ChildEntries(settled'.response)[k].path]]_vars

\* Two findAll() calls are under way, the request of each sent.
C25_Witness ==
    /\ Len(pending) = 2
    /\ pending[1].op = "findAll"
    /\ pending[2].op = "findAll"
    /\ nRequests = 2
    /\ lastRequest.method = "PROPFIND"

(***************************************************************************)
(* Claims about the URL of a collection.                                   *)
(***************************************************************************)

\* The URL of the collection and of every collection among the nodes last
\* resolved ends with the separator.
CollectionUrlsEndWithSeparator ==
    /\ _url # <<>> /\ _url[Len(_url)] = "/"
    /\ settled.state = "resolved" =>
          \A k \in DOMAIN settled.value :
             settled.value[k].new \in CollectionConstructors =>
                /\ settled.value[k].url # <<>>
                /\ settled.value[k].url[Len(settled.value[k].url)] = "/"

\* C26: the URL of a collection, constructed directly or by resolution, ends
\* with the separator '/', and no operation changes the URL of a node.
C26_CollectionUrlNormalized ==
    /\ CollectionUrlsEndWithSeparator
    /\ [][CollectionUrlsEndWithSeparator' /\ _url' = _url]_vars

\* findAll() resolved the entry /c/a, a calendar, into a collection with
\* the URL /c/a/.
C26_Witness ==
    /\ settled.op = "findAll"
    /\ settled.state = "resolved"
    /\ Len(settled.value) = 1
    /\ settled.response[1].path = <<"/", "c", "/", "a">>
    /\ settled.value[1].new \in CollectionConstructors
    /\ settled.value[1].url = <<"/", "c", "/", "a", "/">>

(***************************************************************************)
(* Claims about update() and the answer to its PROPPATCH.                  *)
(***************************************************************************)

\* The answer to the PROPPATCH is a 207 with a propstat that is not 2xx and
\* lists the dirty displayname.
PartialFailure ==
    /\ reply.kind = "resolved"
    /\ reply.status = 207
    /\ \E j \in DOMAIN document : \E n \in DOMAIN document[j].propstats :
          /\ FailedPropStat(document[j].propstats[n])
          /\ \E m \in DOMAIN document[j].propstats[n].props :
                document[j].propstats[n].props[m].name = DisplayName

\* C27: update() completes successfully whenever its PROPPATCH is answered
\* with a 2xx status, a 207 whose body reports a propstat that is not 2xx
\* included; it takes nothing from the response, so the PropertyMap and what
\* was written locally are after update() as they were before.
C27_UpdateSucceedsOnAny2xx ==
    /\ []((/\ pending # <<>>
           /\ sent.method = "PROPPATCH"
           /\ reply.answered
           /\ reply.status >= 200 /\ reply.status < 300
           /\ outcome # NoOutcome)
          => /\ outcome.state = "resolved"
             /\ ENABLED updateResumed(1))
    /\ [][\A i \in DOMAIN pending :
             updateResumed(i) =>
                /\ settled'.state = "resolved"
                /\ settled'.op = "update"
                /\ _props' = _props
                /\ _updatedProperties' = _updatedProperties]_vars

\* update() returned after a 207 that reports the dirty displayname, written
\* as "a", with a 404 propstat; displayname still reads "a".
C27_Witness ==
    /\ settled.op = "update"
    /\ settled.state = "resolved"
    /\ pending = <<>>
    /\ sent = NoConfig
    /\ PartialFailure
    /\ _props = (DisplayName :> "a")
    /\ _updatedProperties = <<DisplayName>>

(***************************************************************************)
(* Claims about createCollection().                                        *)
(***************************************************************************)

Recorded(path) == \E j \in DOMAIN _childrenNames : _childrenNames[j] = path

\* A step that starts a createCollection(name).
IsCreate(name) ==
    /\ pending = <<>>
    /\ pending' # <<>>
    /\ pending'[1].op = "createCollection"
    /\ pending'[1].name = name

\* The MKCOL of a createCollection() goes to a URL that is no recorded child
\* path, with or without a "/" after it, and a call whose find() succeeded
\* has recorded the path it created.
CreateAvoidsRecorded ==
    /\ \A name \in Tokens :
          IsCreate(name) =>
             /\ lastRequest'.method = "MKCOL"
             /\ lastRequest'.url = pending'[1].url
             /\ ~Recorded(lastRequest'.url)
             /\ ~Recorded(lastRequest'.url \o <<"/">>)
    /\ \A i \in DOMAIN pending :
          (/\ pending[i].op = "createCollection"
           /\ pending' = Remove(pending, i)
           /\ settled'.state = "resolved")
          => /\ settled'.op = "createCollection"
             /\ \E j \in DOMAIN _childrenNames' :
                   _childrenNames'[j] = pending[i].url \o <<"/">>

PostFailed(i) ==
    /\ pending[i].awaits = "post"
    /\ pending' = Remove(pending, i)
    /\ settled'.state = "rejected"

\* C29: publish() sends a POST to the collection's URL; a PROPFIND is sent
\* only by a publish() whose POST succeeded, once, with Depth 0 and to the
\* collection's own URL, and the PropertyMap it is answered with becomes the
\* node's PropertyMap as a whole.  When the POST fails no request follows
\* and the PropertyMap is as before.  unpublish() sends a POST too and the
\* PropertyMap loses publish-url, and nothing else, in the step its POST
\* succeeded; the PropertyMap changes in no step but these two.
C29_PublishThenRefresh ==
    [][/\ (pending = <<>> /\ pending' # <<>>) =>
             /\ lastRequest'.method = "POST"
             /\ lastRequest'.url = _url
             /\ nRequests' = nRequests + 1
             /\ _props' = _props
       /\ (lastRequest'.method = "PROPFIND" /\ lastRequest' # lastRequest) =>
             /\ pending # <<>>
             /\ pending[1].op = "publish"
             /\ pending[1].awaits = "post"
             /\ pending' # <<>>
             /\ pending'[1].awaits = "propFind"
             /\ lastRequest.method = "POST"
             /\ lastRequest'.depth = "0"
             /\ lastRequest'.url = _url
             /\ nRequests' = nRequests + 1
             /\ _props' = _props
       /\ \A i \in DOMAIN pending :
             PostFailed(i) =>
                /\ pending' = <<>>
                /\ settled'.op = pending[i].op
                /\ lastRequest' = lastRequest
                /\ nRequests' = nRequests
                /\ _props' = _props
       /\ \A i \in DOMAIN pending :
             (/\ pending[i].op = "publish"
              /\ pending[i].awaits = "propFind"
              /\ pending' = Remove(pending, i)
              /\ settled'.state = "resolved")
             => /\ _props' = settled'.response
                /\ lastRequest' = lastRequest
       /\ \A i \in DOMAIN pending :
             (/\ pending[i].op = "unpublish"
              /\ pending' = Remove(pending, i)
              /\ settled'.state = "resolved")
             => /\ _props' = Deleted(_props, PublishUrl)
                /\ lastRequest.method = "POST"
                /\ lastRequest' = lastRequest
       /\ (_props' # _props) =>
             /\ pending # <<>>
             /\ pending' = <<>>
             /\ settled'.state = "resolved"]_vars

\* publish() returned on a collection that held a displayname only, the
\* PROPFIND answered with publish-url only: the displayname is gone.
C29_Witness ==
    /\ settled.op = "publish"
    /\ settled.state = "resolved"
    /\ settled.response = (PublishUrl :> "a")
    /\ _props = (PublishUrl :> "a")
    /\ nCalls = 1
    /\ nRequests = 2
    /\ lastRequest.method = "PROPFIND"
    /\ lastRequest.depth = "0"

(***************************************************************************)
(* Claims about the property-set encoders.                                 *)
(***************************************************************************)

\* C30: of the keys update() hands it, a registered encoder emits elements
\* only for those it knows, and at most one for each; an update() with a
\* dirty key no registered encoder knows still sends exactly one PROPPATCH,
\* and its body holds no element of that key.
C30_EncodersEmitKnownKeysOnly ==
    [][(update /\ _updatedProperties # <<>>) =>
          LET properties == UpdatedPropertyValues(_updatedProperties, _props)
              dirty == {_updatedProperties[i] : i \in DOMAIN _updatedProperties}
              elements == PropElements(lastRequest'.body)
          IN  /\ \A j \in DOMAIN _propSetFactory :
                    LET xmlified == CallPropSet(_propSetFactory[j], properties) IN
                    /\ \A e \in DOMAIN xmlified :
                          \E key \in dirty :
                             /\ Handles(_propSetFactory[j], key)
                             /\ xmlified[e].name = ElementName(key)
                    /\ \A key \in dirty :
                          Cardinality({e \in DOMAIN xmlified :
                                          xmlified[e].name = ElementName(key)}) <= 1
              /\ nRequests' = nRequests + 1
              /\ lastRequest'.method = "PROPPATCH"
              /\ Len(pending') = Len(pending) + 1
              /\ \A key \in dirty :
                    (\A j \in DOMAIN _propSetFactory : ~Handles(_propSetFactory[j], key))
                    => \A e \in DOMAIN elements : elements[e].name # ElementName(key)]_vars

\* With davCollectionPropSet the only encoder and {http://owncloud.org/ns}enabled
\* the only dirty key, a PROPPATCH went out whose d:prop is empty.
C30_Witness ==
    /\ lastRequest.method = "PROPPATCH"
    /\ nRequests = 1
    /\ _propSetFactory = <<"davCollectionPropSet">>
    /\ _updatedProperties = <<OwnCloudEnabled>>
    /\ PropElements(lastRequest.body) = <<>>

====
